---- MODULE Spec2Model ----
(***************************************************************************)
(* Model of the .eph container pipeline of EphReader:                      *)
(*   - SPICEConverter        (src/tools/spice2eph.py)   writes a container *)
(*   - ChironEphConverter    (src/tools/convert_chiron_to_eph.py)  too     *)
(*   - EphReader             (src/tools/eph_reader.py)  opens and queries  *)
(*                                                                         *)
(* Julian Dates are integers (one unit = one tick of the time grid); a     *)
(* quotient of JDs is an exact rational <<num, den>>.  A file is the       *)
(* sequence of the chunks passed to f.write, each with the cursor position *)
(* it was written at.  A fitted Chebyshev coefficient is an opaque value   *)
(* that identifies (body, interval, component, order).                     *)
(***************************************************************************)
EXTENDS Integers, Sequences, FiniteSets, TLC

VARIABLES file, conv, reader, result, swiss, refit, orbit, cheb, callers, handles, daf, gen, clock

vars == <<file, conv, reader, result, swiss, refit, orbit, cheb, callers, handles, daf, gen, clock>>

----------------------------------------------------------------------------
(* Bounds of the model *)

MinJD == 1             \* earliest coverage start handed to a converter
MaxJD == 6             \* latest coverage end handed to SPICEConverter
MaxIntervalDays == 3   \* largest interval_days
MaxBodies == 2         \* longest requested body_ids list
MaxPoints == 66        \* most epochs in the Horizons JSON
MaxStepDays == 2       \* largest metadata step_days of the Horizons JSON

(* Program constants *)

HEADER_SIZE == 512
BODY_ENTRY_SIZE == 36
INTERVAL_ENTRY_SIZE == 16
NAME_SIZE == 24
DOUBLE_SIZE == 8
SPICE_VERSION == 1
CHIRON_VERSION == 2
SPICE_DEGREE == 7
CHIRON_BODY_ID == 2060
points_per_interval == 32

MAGIC == <<69, 80, 72, 0>>          \* b"EPH\0"
XPH_MAGIC == <<88, 80, 72, 0>>      \* b"XPH\0"
CHIRON_NAME == <<67, 104, 105, 114, 111, 110>>   \* b"Chiron"

BODY_NAMES ==
    0 :> <<83, 83, 66>> @@
    1 :> <<77, 101, 114, 99, 117, 114, 121>> @@
    2 :> <<86, 101, 110, 117, 115>> @@
    3 :> <<69, 77, 66>> @@
    4 :> <<77, 97, 114, 115>> @@
    5 :> <<74, 117, 112, 105, 116, 101, 114>> @@
    6 :> <<83, 97, 116, 117, 114, 110>> @@
    7 :> <<85, 114, 97, 110, 117, 115>> @@
    8 :> <<78, 101, 112, 116, 117, 110, 101>> @@
    9 :> <<80, 108, 117, 116, 111>> @@
    10 :> <<83, 117, 110>> @@
    199 :> <<77, 101, 114, 99, 117, 114, 121>> @@
    299 :> <<86, 101, 110, 117, 115>> @@
    399 :> <<69, 97, 114, 116, 104>> @@
    499 :> <<77, 97, 114, 115>> @@
    599 :> <<74, 117, 112, 105, 116, 101, 114>> @@
    699 :> <<83, 97, 116, 117, 114, 110>> @@
    799 :> <<85, 114, 97, 110, 117, 115>> @@
    899 :> <<78, 101, 112, 116, 117, 110, 101>> @@
    999 :> <<80, 108, 117, 116, 111>> @@
    301 :> <<77, 111, 111, 110>>

(* Input domains *)

RequestIds == {10, 2060}               \* ids a caller may pass in --bodies
QueryIds == RequestIds \cup {399}       \* ids a caller may pass to compute
ChironDegrees == {2, 13}               \* chebyshev_degree (13 is the default)

BodyLists == UNION {[1..n -> RequestIds] : n \in 1..MaxBodies}

\* lengths of data['epochs']: none, the shortest lists, the lengths around one
\* and two full chunks of points_per_interval epochs, and the longest
PointCounts ==
    {n \in 0..MaxPoints :
        \/ n <= 2
        \/ \E k \in 1..2 : n \in (k * points_per_interval - 1)..(k * points_per_interval + 2)
        \/ n = MaxPoints}

----------------------------------------------------------------------------
(* Generic helpers *)

Min(a, b) == IF a < b THEN a ELSE b

Range(s) == {s[i] : i \in DOMAIN s}

\* sorted(keys): the ascending sequence of a finite set of integers
RECURSIVE SortedSeq(_)
SortedSeq(S) ==
    IF S = {} THEN <<>>
    ELSE LET m == CHOOSE x \in S : \A y \in S : x <= y
         IN <<m>> \o SortedSeq(S \ {m})

RECURSIVE GCD(_, _)
GCD(a, b) == IF b = 0 THEN a ELSE GCD(b, a % b)

Abs(a) == IF a < 0 THEN -a ELSE a

\* the exact quotient n/d (d # 0) in lowest terms with a positive denominator
Rat(n, d) ==
    LET g == GCD(Abs(n), Abs(d))
        s == IF d < 0 THEN -1 ELSE 1
    IN <<s * (n \div g), s * (d \div g)>>

----------------------------------------------------------------------------
(* Files: the chunks handed to f.write, in order *)

NoFile == <<>>

FileSize(f) == IF Len(f) = 0 THEN 0 ELSE f[Len(f)].pos + f[Len(f)].size

\* f.write(data) at the current cursor (files are written front to back)
Write(f, size, kind, val) ==
    Append(f, [pos |-> FileSize(f), size |-> size, kind |-> kind, val |-> val])

\* the f.write call that produced the bytes starting exactly at off, or 0
ChunkIndexAt(f, off) ==
    IF \E k \in 1..Len(f) : f[k].pos = off
    THEN CHOOSE k \in 1..Len(f) : f[k].pos = off
    ELSE 0

\* the double stored at byte offset off: element of a packed run of doubles
Garbage == -1
DoubleAt(f, off) ==
    LET hits == {k \in 1..Len(f) : f[k].pos <= off /\ off < f[k].pos + f[k].size}
    IN IF hits = {} THEN Garbage
       ELSE LET c == f[CHOOSE k \in hits : TRUE]
            IN IF c.kind = "doubles" /\ (off - c.pos) % DOUBLE_SIZE = 0
               THEN c.val[((off - c.pos) \div DOUBLE_SIZE) + 1]
               ELSE Garbage

----------------------------------------------------------------------------
(* struct.pack('<...'): little-endian, standard sizes, no alignment padding. *)
(* fields is a sequence of <<size, value>>; the result maps the byte offset  *)
(* of every field to its value.                                              *)

RECURSIVE PackFrom(_, _, _)
PackFrom(fields, k, off) ==
    IF k = Len(fields)
    THEN off :> fields[k][2]
    ELSE (off :> fields[k][2]) @@ PackFrom(fields, k + 1, off + fields[k][1])

StructPack(fields) == PackFrom(fields, 1, 0)

\* name.encode('ascii')[:24].ljust(24, b'\x00')
EncodeName(name) ==
    [i \in 1..NAME_SIZE |-> IF i <= Len(name) THEN name[i] ELSE 0]

\* data[4:28].rstrip(b'\x00').decode('ascii')
RECURSIVE RStripNul(_)
RStripNul(bytes) ==
    IF Len(bytes) > 0 /\ bytes[Len(bytes)] = 0
    THEN RStripNul(SubSeq(bytes, 1, Len(bytes) - 1))
    ELSE bytes

\* str(n) for an integer n, as ASCII codes
RECURSIVE Digits(_)
Digits(n) == IF n < 10 THEN <<48 + n>> ELSE Digits(n \div 10) \o <<48 + (n % 10)>>

Str(n) == IF n < 0 THEN <<45>> \o Digits(-n) ELSE Digits(n)

\* BODY_NAMES.get(body_id, f"Body{body_id}")
BodyName(body_id) ==
    IF body_id \in DOMAIN BODY_NAMES
    THEN BODY_NAMES[body_id]
    ELSE <<66, 111, 100, 121>> \o Str(body_id)

----------------------------------------------------------------------------
(* SPICEConverter (src/tools/spice2eph.py) *)

\* the loop without the truncation of the last interval to end_jd
RECURSIVE generate_loop_untruncated(_, _, _, _)
generate_loop_untruncated(intervals, current, end_jd, interval_days) ==
    IF current < end_jd
    THEN LET interval_end == current + interval_days
         IN generate_loop_untruncated(Append(intervals, <<current, interval_end>>),
                                      interval_end, end_jd, interval_days)
    ELSE intervals

\* while current < end_jd: append (current, min(current + interval_days, end_jd))
RECURSIVE generate_loop(_, _, _, _)
generate_loop(intervals, current, end_jd, interval_days) ==
    IF current < end_jd
    THEN LET interval_end == Min(current + interval_days, end_jd)
         IN generate_loop(Append(intervals, <<current, interval_end>>),
                          interval_end, end_jd, interval_days)
    ELSE intervals

_generate_intervals(start_jd, end_jd, interval_days) ==
    generate_loop(<<>>, start_jd, end_jd, interval_days)

\* The value chebfit returns for order k of component comp (0 = x, 1 = y,
\* 2 = z) of interval j (0-based) of a body: opaque, one value per place.
BodyRank(body_id) == Cardinality({b \in QueryIds : b < body_id})

Coef(body_id, j, comp, k) == 1 + k + 16 * (comp + 4 * (j + 64 * BodyRank(body_id)))

\* numpy.polynomial.chebyshev.chebfit on computed samples: degree + 1
\* coefficients
chebfit(body_id, j, comp, degree) ==
    [k \in 1..(degree + 1) |-> Coef(body_id, j, comp, k - 1)]

\* what chebfit returns when some, not all, of the sampled values were
\* replaced by 0.0: a non-zero value that is not the clean coefficient
Polluted(c) == -(c + 2)

\* _fit_chebyshev(nodes, positions[:, comp], degree) for interval j, where
\* the samples at the nodes in failed_nodes are [0.0, 0.0, 0.0]
_fit_chebyshev(body_id, j, comp, degree, failed_nodes) ==
    [k \in 1..(degree + 1) |->
        IF failed_nodes = {} THEN chebfit(body_id, j, comp, degree)[k]
        ELSE IF failed_nodes = 0..degree THEN 0
        ELSE Polluted(chebfit(body_id, j, comp, degree)[k])]

\* the body of the interval loop: sample degree + 1 nodes (a spkgps call that
\* raises contributes [0.0, 0.0, 0.0]), then fit x, y and z with degree = 7
extract_interval(body_id, j, failed_nodes) ==
    [x |-> _fit_chebyshev(body_id, j, 0, SPICE_DEGREE, failed_nodes),
     y |-> _fit_chebyshev(body_id, j, 1, SPICE_DEGREE, failed_nodes),
     z |-> _fit_chebyshev(body_id, j, 2, SPICE_DEGREE, failed_nodes)]

\* one {'x', 'y', 'z'} record per interval; failed[j] is the set of nodes
\* (0..degree) of the j-th interval whose spkgps call raises
_extract_coefficients(body_id, intervals, failed) ==
    [j \in 1..Len(intervals) |-> extract_interval(body_id, j - 1, failed[j])]

\* no spkgps call raises
NoFailures(intervals) == [j \in 1..Len(intervals) |-> {}]

\* the offset computed with degree instead of degree + 1 coefficients
SpiceDataOffsetDegree(i, num_bodies, num_intervals, coeff_degree) ==
    HEADER_SIZE + num_bodies * BODY_ENTRY_SIZE + num_intervals * INTERVAL_ENTRY_SIZE
    + i * num_intervals * (coeff_degree * 3 * DOUBLE_SIZE)

\* data_offset of the i-th (0-based) entry of the body table
SpiceDataOffset(i, num_bodies, num_intervals, coeff_degree) ==
    LET body_table_size == num_bodies * BODY_ENTRY_SIZE
        interval_index_size == num_intervals * INTERVAL_ENTRY_SIZE
        coeffs_per_component == coeff_degree + 1
        coeffs_per_interval == coeffs_per_component * 3
        bytes_per_interval == coeffs_per_interval * DOUBLE_SIZE
        data_start == HEADER_SIZE + body_table_size + interval_index_size
    IN data_start + i * num_intervals * bytes_per_interval

\* for i, body_id in enumerate(sorted(all_coeffs.keys())): write the entry
RECURSIVE WriteBodyTable(_, _, _, _, _, _)
WriteBodyTable(f, keys, i, num_bodies, num_intervals, coeff_degree) ==
    IF i >= Len(keys) THEN f
    ELSE LET body_id == keys[i + 1]
             name_bytes == EncodeName(BodyName(body_id))
             data_offset == SpiceDataOffset(i, num_bodies, num_intervals, coeff_degree)
             entry == StructPack(<< <<4, body_id>>, <<NAME_SIZE, name_bytes>>,
                                    <<8, data_offset>> >>)
         IN WriteBodyTable(Write(f, BODY_ENTRY_SIZE, "body", entry),
                           keys, i + 1, num_bodies, num_intervals, coeff_degree)

\* for jd_start, jd_end in intervals: f.write(struct.pack('<dd', ...))
RECURSIVE WriteIntervalIndex(_, _, _)
WriteIntervalIndex(f, intervals, j) ==
    IF j > Len(intervals) THEN f
    ELSE WriteIntervalIndex(
             Write(f, INTERVAL_ENTRY_SIZE, "interval",
                   StructPack(<< <<8, intervals[j][1]>>, <<8, intervals[j][2]>> >>)),
             intervals, j + 1)

\* for coeffs in coeffs_list: f.write(x_data); f.write(y_data); f.write(z_data)
RECURSIVE WriteCoeffsList(_, _, _)
WriteCoeffsList(f, coeffs_list, j) ==
    IF j > Len(coeffs_list) THEN f
    ELSE LET c == coeffs_list[j]
             fx == Write(f, DOUBLE_SIZE * Len(c.x), "doubles", c.x)
             fy == Write(fx, DOUBLE_SIZE * Len(c.y), "doubles", c.y)
             fz == Write(fy, DOUBLE_SIZE * Len(c.z), "doubles", c.z)
         IN WriteCoeffsList(fz, coeffs_list, j + 1)

\* for body_id in sorted(all_coeffs.keys()): write its coefficient run
RECURSIVE WriteCoefficientData(_, _, _, _)
WriteCoefficientData(f, all_coeffs, keys, i) ==
    IF i > Len(keys) THEN f
    ELSE WriteCoefficientData(WriteCoeffsList(f, all_coeffs[keys[i]], 1),
                              all_coeffs, keys, i + 1)

_write_eph_file(all_coeffs, intervals, coeff_degree, interval_days, start_jd, end_jd) ==
    LET num_bodies == Cardinality(DOMAIN all_coeffs)
        num_intervals == Len(intervals)
        header == StructPack(<< <<4, MAGIC>>, <<4, SPICE_VERSION>>, <<4, num_bodies>>,
                                <<4, num_intervals>>, <<8, interval_days>>,
                                <<8, start_jd>>, <<8, end_jd>>, <<4, coeff_degree>> >>)
        keys == SortedSeq(DOMAIN all_coeffs)
        f1 == Write(NoFile, HEADER_SIZE, "header", header)
        f2 == WriteBodyTable(f1, keys, 0, num_bodies, num_intervals, coeff_degree)
        f3 == WriteIntervalIndex(f2, intervals, 1)
    IN WriteCoefficientData(f3, all_coeffs, keys, 1)

NoConv == [writer |-> "none", body_ids |-> <<>>, start_jd |-> 0, end_jd |-> 0,
           interval_days |-> 0, intervals |-> <<>>, all_coeffs |-> <<>>,
           degree |-> 0, error |-> "none", fits |-> 0, max_exceeds |-> FALSE]

\* the loop with a failed body kept in all_coeffs, with no intervals
extract_all_keeping(body_ids, intervals, raising) ==
    [b \in Range(body_ids) |->
        IF b \in raising THEN <<>>
        ELSE _extract_coefficients(b, intervals, NoFailures(intervals))]

\* all_coeffs = {}; for body_id in self.body_ids: try: all_coeffs[body_id] =
\* self._extract_coefficients(body_id, intervals); except Exception: continue
extract_all(body_ids, intervals, raising) ==
    [b \in Range(body_ids) \ raising |->
        _extract_coefficients(b, intervals, NoFailures(intervals))]

\* SPICEConverter.convert: coverage [start_jd, end_jd] comes from spkcov,
\* raising is the set of bodies whose _extract_coefficients raises.  Here every
\* spkgps sample computes; failing samples are the subject of ExtractCoefficients.
\* The result is the record of the run and the file it leaves.
convert(body_ids, start_jd, interval_days, end_jd, raising) ==
    LET intervals == _generate_intervals(start_jd, end_jd, interval_days)
        all_coeffs == extract_all(body_ids, intervals, raising)
        extracted == DOMAIN all_coeffs
        first_body == body_ids[CHOOSE n \in 1..Len(body_ids) :
                        /\ body_ids[n] \in extracted
                        /\ \A m \in 1..(n - 1) : body_ids[m] \notin extracted]
        base == [writer |-> "spice", body_ids |-> body_ids,
                 start_jd |-> start_jd, end_jd |-> end_jd,
                 interval_days |-> interval_days, intervals |-> intervals,
                 all_coeffs |-> all_coeffs, degree |-> 0, error |-> "none",
                 fits |-> 0, max_exceeds |-> FALSE]
    IN IF extracted = {}
       THEN [conv |-> [base EXCEPT !.error = "RuntimeError"], file |-> NoFile]
       ELSE IF Len(all_coeffs[first_body]) = 0
       THEN [conv |-> [base EXCEPT !.error = "IndexError"], file |-> NoFile]
       ELSE LET coeff_degree == Len(all_coeffs[first_body][1].x) - 1
            IN [conv |-> [base EXCEPT !.degree = coeff_degree],
                file |-> _write_eph_file(all_coeffs, intervals, coeff_degree,
                                         interval_days, start_jd, end_jd)]

\* one run of the converter
SPICEConvert ==
    /\ file = NoFile
    /\ conv.writer = "none"
    /\ \E body_ids \in BodyLists, start_jd \in MinJD..(MinJD + 1),
          interval_days \in 1..MaxIntervalDays :
       \E end_jd \in start_jd..MaxJD, raising \in SUBSET Range(body_ids) :
          LET out == convert(body_ids, start_jd, interval_days, end_jd, raising)
          IN /\ conv' = out.conv
             /\ file' = out.file
    /\ UNCHANGED <<reader, result, swiss, refit, orbit, cheb, callers, handles, daf, gen, clock>>

----------------------------------------------------------------------------
(* ChironEphConverter (src/tools/convert_chiron_to_eph.py) *)

NaN == -2      \* a coefficient fitted from a 0/0 normalized time

\* data['epochs']: num_points epochs, step_days apart, starting at MinJD
Epochs(num_points, step_days) ==
    [k \in 1..num_points |-> MinJD + (k - 1) * step_days]

\* for i in range(num_intervals): the interval metadata and coefficients
\* (jd_start = interval_epochs[0], jd_end = interval_epochs[-1])
ChironInterval(epochs, i) ==
    LET num_points == Len(epochs)
        start_idx == i * points_per_interval
        end_idx == Min(start_idx + points_per_interval, num_points)
    IN [jd_start |-> epochs[start_idx + 1],
        jd_end |-> epochs[end_idx],
        num_points |-> end_idx - start_idx]

ChironNumIntervals(num_points) ==
    (num_points + points_per_interval - 1) \div points_per_interval

\* np.concatenate([cheb_x.coef, cheb_y.coef, cheb_z.coef])
ChironCoeffs(interval, i, degree) ==
    IF interval.jd_end = interval.jd_start
    THEN [n \in 1..(3 * (degree + 1)) |-> NaN]
    ELSE chebfit(CHIRON_BODY_ID, i, 0, degree)
         \o chebfit(CHIRON_BODY_ID, i, 1, degree)
         \o chebfit(CHIRON_BODY_ID, i, 2, degree)

fit_chebyshev_intervals(epochs) ==
    [i \in 1..ChironNumIntervals(Len(epochs)) |-> ChironInterval(epochs, i - 1)]

RECURSIVE WriteChironIndex(_, _, _)
WriteChironIndex(f, intervals, j) ==
    IF j > Len(intervals) THEN f
    ELSE WriteChironIndex(
             Write(f, INTERVAL_ENTRY_SIZE, "interval",
                   StructPack(<< <<8, intervals[j].jd_start>>,
                                 <<8, intervals[j].jd_end>> >>)),
             intervals, j + 1)

RECURSIVE WriteChironCoeffs(_, _, _)
WriteChironCoeffs(f, coefficients, j) ==
    IF j > Len(coefficients) THEN f
    ELSE WriteChironCoeffs(
             Write(f, DOUBLE_SIZE * Len(coefficients[j]), "doubles", coefficients[j]),
             coefficients, j + 1)

write_binary(intervals, coefficients, degree) ==
    LET num_bodies == 1
        num_intervals == Len(intervals)
        first_interval == intervals[1]
        last_interval == intervals[num_intervals]
        interval_days == Rat(last_interval.jd_end - first_interval.jd_start,
                             num_intervals)
        header == (0 :> MAGIC) @@ (4 :> CHIRON_VERSION) @@ (8 :> num_bodies)
                  @@ (12 :> num_intervals) @@ (16 :> interval_days)
                  @@ (24 :> first_interval.jd_start)
                  @@ (32 :> last_interval.jd_end) @@ (40 :> degree)
        data_offset == HEADER_SIZE + BODY_ENTRY_SIZE
                       + num_intervals * INTERVAL_ENTRY_SIZE
        body_entry == (0 :> CHIRON_BODY_ID) @@ (4 :> EncodeName(CHIRON_NAME))
                      @@ (28 :> data_offset)
        f1 == Write(NoFile, HEADER_SIZE, "header", header)
        f2 == Write(f1, BODY_ENTRY_SIZE, "body", body_entry)
        f3 == WriteChironIndex(f2, intervals, 1)
    IN WriteChironCoeffs(f3, coefficients, 1)

\* ChironEphConverter.convert: load_json, fit_chebyshev_intervals,
\* compute_rms_error, write_binary.  A fit over a single epoch divides 0 by 0;
\* lstsq then either raises LinAlgError or returns NaN coefficients.
\* max_exceeds tells whether the max_km that compute_rms_error returns is above
\* the acceptance threshold; fits counts the calls of fit_chebyshev_intervals.
ChironConvert ==
    /\ file = NoFile
    /\ conv.writer = "none"
    /\ \E num_points \in PointCounts, step_days \in 1..MaxStepDays,
          degree \in ChironDegrees, nan_raises \in BOOLEAN,
          max_exceeds \in BOOLEAN :
          LET epochs == Epochs(num_points, step_days)
              intervals == fit_chebyshev_intervals(epochs)
              coefficients == [i \in 1..Len(intervals) |->
                                  ChironCoeffs(intervals[i], i - 1, degree)]
              degenerate == \E i \in 1..Len(intervals) :
                                intervals[i].jd_end = intervals[i].jd_start
              base == [writer |-> "chiron", body_ids |-> <<CHIRON_BODY_ID>>,
                       start_jd |-> MinJD,
                       end_jd |-> MinJD + (num_points - 1) * step_days,
                       interval_days |-> points_per_interval * step_days,
                       intervals |-> intervals,
                       all_coeffs |-> (CHIRON_BODY_ID :> coefficients),
                       degree |-> degree, error |-> "none",
                       fits |-> 1, max_exceeds |-> max_exceeds]
          IN /\ (~degenerate) => nan_raises
             /\ ((degenerate /\ nan_raises) \/ num_points = 0) => ~max_exceeds
             /\ IF degenerate /\ nan_raises
                THEN /\ conv' = [base EXCEPT !.error = "LinAlgError"]
                     /\ file' = NoFile
                ELSE IF num_points = 0
                THEN /\ conv' = [base EXCEPT !.error = "ValueError"]
                     /\ file' = NoFile
                ELSE /\ conv' = base
                     /\ file' = write_binary(intervals, coefficients, degree)
    /\ UNCHANGED <<reader, result, swiss, refit, orbit, cheb, callers, handles, daf, gen, clock>>

----------------------------------------------------------------------------
(* EphReader (src/tools/eph_reader.py) *)

NoReader == [status |-> "none", error |-> "none", header |-> <<>>,
             bodies |-> <<>>, intervals |-> <<>>]

\* data[0:4] of the first 512 bytes
HeaderMagic(f) ==
    IF Len(f) > 0 /\ f[1].kind = "header" THEN f[1].val[0] ELSE <<>>

\* the fields unpacked from data[4:16], data[16:40], data[40:44]
_read_header(f) ==
    LET data == f[1].val
    IN [version |-> data[4], num_bodies |-> data[8], num_intervals |-> data[12],
        interval_days |-> data[16], start_jd |-> data[24], end_jd |-> data[32],
        coeff_degree |-> data[40]]

\* for i in range(num_bodies): f.read(36), starting at HEADER_SIZE
RECURSIVE ReadBodies(_, _, _, _)
ReadBodies(f, bodies, i, num_bodies) ==
    IF i >= num_bodies THEN bodies
    ELSE LET k == ChunkIndexAt(f, HEADER_SIZE + i * BODY_ENTRY_SIZE)
             data == f[k].val
             body_id == data[0]
             name == RStripNul(data[4])
             data_offset == data[28]
         IN ReadBodies(f, (body_id :> [name |-> name, data_offset |-> data_offset])
                          @@ bodies,
                       i + 1, num_bodies)

_read_body_table(f, header) == ReadBodies(f, <<>>, 0, header.num_bodies)

\* the offset computed with 32-byte body entries
IntervalIndexOffset32(header) == HEADER_SIZE + header.num_bodies * 32

\* offset = HEADER_SIZE + num_bodies * BODY_ENTRY_SIZE, then 16 bytes each
IntervalIndexOffset(header) == HEADER_SIZE + header.num_bodies * BODY_ENTRY_SIZE

_read_interval_index(f, header) ==
    [j \in 1..header.num_intervals |->
        LET k == ChunkIndexAt(f, IntervalIndexOffset(header)
                                 + (j - 1) * INTERVAL_ENTRY_SIZE)
        IN IF k # 0 /\ f[k].kind = "interval"
           THEN <<f[k].val[0], f[k].val[8]>>
           ELSE <<Garbage, Garbage>>]

BodyEntriesPresent(f, header) ==
    \A i \in 0..(header.num_bodies - 1) :
        LET k == ChunkIndexAt(f, HEADER_SIZE + i * BODY_ENTRY_SIZE)
        IN k # 0 /\ f[k].kind = "body"

\* EphReader(filepath): the object __init__ leaves for the file f, or the
\* exception it raises
EphReader(f) ==
    IF f = NoFile
    THEN [NoReader EXCEPT !.status = "error", !.error = "FileNotFoundError"]
    ELSE IF HeaderMagic(f) # MAGIC
    THEN [NoReader EXCEPT !.status = "error", !.error = "InvalidMagic"]
    ELSE LET header == _read_header(f)
         IN IF ~BodyEntriesPresent(f, header)
            THEN [NoReader EXCEPT !.status = "error", !.error = "struct.error",
                                  !.header = header]
            ELSE [status |-> "open", error |-> "none", header |-> header,
                  bodies |-> _read_body_table(f, header),
                  intervals |-> _read_interval_index(f, header)]

\* EphReader.__init__
EphReaderInit ==
    /\ reader.status # "open"
    /\ reader' = EphReader(file)
    /\ UNCHANGED <<file, conv, result, swiss, refit, orbit, cheb, callers, handles, daf, gen, clock>>

\* A file whose first four bytes are b"XPH\0" instead of the magic
CorruptMagic ==
    /\ file # NoFile
    /\ reader.status = "none"
    /\ HeaderMagic(file) = MAGIC
    /\ file' = [file EXCEPT ![1].val = (0 :> XPH_MAGIC) @@ file[1].val]
    /\ UNCHANGED <<conv, reader, result, swiss, refit, orbit, cheb, callers, handles, daf, gen, clock>>

\* the size the header of f declares: header, body table, interval index and
\* 3 * (degree + 1) doubles per (body, interval)
DeclaredFileSize(f) ==
    LET header == _read_header(f)
    IN HEADER_SIZE + header.num_bodies * BODY_ENTRY_SIZE
       + header.num_intervals * INTERVAL_ENTRY_SIZE
       + 3 * (header.coeff_degree + 1) * DOUBLE_SIZE
         * header.num_intervals * header.num_bodies

\* A file that lost the tail of its coefficient matrix (the last write of the
\* converter did not reach the disk) before a reader opens it
TruncateFile ==
    /\ file # NoFile
    /\ reader.status = "none"
    /\ file[Len(file)].kind = "doubles"
    /\ FileSize(file) = DeclaredFileSize(file)
    /\ file' = SubSeq(file, 1, Len(file) - 1)
    /\ UNCHANGED <<conv, reader, result, swiss, refit, orbit, cheb, callers, handles, daf, gen, clock>>

NotFound == -1

\* the search over half-open intervals [jd_start, jd_end)
RECURSIVE find_loop_halfopen(_, _, _, _)
find_loop_halfopen(intervals, jd, left, right) ==
    IF left <= right
    THEN LET mid == (left + right) \div 2
             start == intervals[mid + 1][1]
             end == intervals[mid + 1][2]
         IN IF jd < start THEN find_loop_halfopen(intervals, jd, left, mid - 1)
            ELSE IF jd >= end THEN find_loop_halfopen(intervals, jd, mid + 1, right)
            ELSE mid
    ELSE NotFound

\* while left <= right: probe mid = (left + right) // 2 (0-based indices)
RECURSIVE find_loop(_, _, _, _)
find_loop(intervals, jd, left, right) ==
    IF left <= right
    THEN LET mid == (left + right) \div 2
             start == intervals[mid + 1][1]
             end == intervals[mid + 1][2]
         IN IF jd < start THEN find_loop(intervals, jd, left, mid - 1)
            ELSE IF jd > end THEN find_loop(intervals, jd, mid + 1, right)
            ELSE mid
    ELSE NotFound

_find_interval(intervals, jd) == find_loop(intervals, jd, 0, Len(intervals) - 1)

\* the normalization without the factor 2
TNormalizedUnscaled(jd, jd_start, jd_end) ==
    Rat((jd - jd_start) - (jd_end - jd_start), jd_end - jd_start)

\* t_normalized = 2.0 * (jd - jd_start) / (jd_end - jd_start) - 1.0
TNormalized(jd, jd_start, jd_end) ==
    Rat(2 * (jd - jd_start) - (jd_end - jd_start), jd_end - jd_start)

\* coeff_size = 3 * degree * 8
CoeffSize(degree) == 3 * degree * DOUBLE_SIZE

\* offset = body['data_offset'] + interval_idx * coeff_size
CoeffOffset(data_offset, interval_idx, degree) ==
    data_offset + interval_idx * CoeffSize(degree)

\* f.seek(offset); f.read(coeff_size); np.frombuffer(...)
ReadDoubles(f, offset, size) ==
    [n \in 1..(size \div DOUBLE_SIZE) |-> DoubleAt(f, offset + (n - 1) * DOUBLE_SIZE)]

\* coeffs.reshape(3, degree)
Reshape3(coeffs, degree) ==
    [c \in 1..3 |-> SubSeq(coeffs, (c - 1) * degree + 1, c * degree)]

NoResult == [kind |-> "none", body_id |-> 0, jd |-> 0, interval_idx |-> NotFound,
             t_normalized |-> <<0, 1>>, offset |-> 0, count |-> 0, coeffs |-> <<>>]

\* the steps of compute up to the read: _find_interval, the normalization
\* and the first lines of _read_coefficients.  kind = "ok" means that the
\* read at offset is the next thing the call does
locate(self, body_id, jd) ==
    LET base == [NoResult EXCEPT !.body_id = body_id, !.jd = jd]
        interval_idx == _find_interval(self.intervals, jd)
    IN IF interval_idx = NotFound
       THEN [base EXCEPT !.kind = IF Len(self.intervals) = 0 THEN "IndexError"
                                  ELSE "OutOfRange"]
       ELSE LET jd_start == self.intervals[interval_idx + 1][1]
                jd_end == self.intervals[interval_idx + 1][2]
                found == [base EXCEPT !.interval_idx = interval_idx]
            IN IF jd_end = jd_start
               THEN [found EXCEPT !.kind = "ZeroDivisionError"]
               ELSE LET t == TNormalized(jd, jd_start, jd_end)
                        timed == [found EXCEPT !.t_normalized = t]
                    IN IF body_id \notin DOMAIN self.bodies
                       THEN [timed EXCEPT !.kind = "UnknownBody"]
                       ELSE [timed EXCEPT
                               !.kind = "ok",
                               !.offset = CoeffOffset(self.bodies[body_id].data_offset,
                                                      interval_idx,
                                                      self.header.coeff_degree)]

\* data = f.read(coeff_size) at position pos of the file, np.frombuffer and
\* reshape(3, degree), for the call that locate left at
fetch(self, f, at, pos) ==
    LET degree == self.header.coeff_degree
        size == CoeffSize(degree)
    IN IF pos + size > FileSize(f)
       THEN [at EXCEPT !.kind = "ReshapeError"]
       ELSE [at EXCEPT !.kind = "ok",
                       !.count = size \div DOUBLE_SIZE,
                       !.coeffs = Reshape3(ReadDoubles(f, pos, size), degree)]

\* a compute that keeps only the interval it found for the next call
compute_narrowing(self, f, body_id, jd) ==
    LET at == locate(self, body_id, jd)
    IN [self |-> IF at.interval_idx = NotFound THEN self
                 ELSE [self EXCEPT !.intervals =
                          <<self.intervals[at.interval_idx + 1]>>],
        result |-> IF at.kind = "ok" THEN fetch(self, f, at, at.offset) ELSE at]

\* EphReader.compute(body_id, jd) on the reader self over the file f: the
\* reader after the call and what the call returned or raised.  The returned
\* pos is _chebyshev_eval of the three rows of coeffs at t_normalized; both
\* operands are recorded.
compute(self, f, body_id, jd) ==
    LET at == locate(self, body_id, jd)
    IN [self |-> self,
        result |-> IF at.kind = "ok" THEN fetch(self, f, at, at.offset) ELSE at]

\* one call of compute on the opened reader
Compute ==
    /\ reader.status = "open"
    /\ \E body_id \in QueryIds, jd \in (MinJD - 1)..(MaxJD + 1) :
          LET out == compute(reader, file, body_id, jd)
          IN /\ reader' = out.self
             /\ result' = out.result
    /\ UNCHANGED <<file, conv, swiss, refit, orbit, cheb, callers, handles, daf, gen, clock>>

----------------------------------------------------------------------------
(* Swiss Ephemeris converters (src/tools/swisseph_ffi2eph.py and            *)
(* src/tools/swisseph2eph.py).  Their output is kept in the variable swiss: *)
(* the arguments of the one conversion run, the file it left on disk and    *)
(* the exception that ended it.                                             *)

SwissIds == {10, 399, 2060}     \* ids a caller may pass in --bodies
SwissBodyLists == UNION {[1..n -> SwissIds] : n \in 1..MaxBodies}
SwissDegrees == {3, 7}          \* degree argument of SwissEph2Eph.convert
NativeAlignments == {4, 8}      \* alignment of an 8-byte field in native mode

FFI_DEGREE == 7
FFI_VERSION == 1
SWISS_BODY_STRIDE == 32
SWISS_HEADER_PAD == 464

\* keys of NAIF_TO_SWEPH and of BODY_MAPPING (the same twelve ids)
NAIF_TO_SWEPH == (1..10) \cup {301, 399}

SWISS_BODY_NAMES ==
    1 :> <<77, 101, 114, 99, 117, 114, 121>> @@
    2 :> <<86, 101, 110, 117, 115>> @@
    3 :> <<69, 77, 66>> @@
    4 :> <<77, 97, 114, 115>> @@
    5 :> <<74, 117, 112, 105, 116, 101, 114>> @@
    6 :> <<83, 97, 116, 117, 114, 110>> @@
    7 :> <<85, 114, 97, 110, 117, 115>> @@
    8 :> <<78, 101, 112, 116, 117, 110, 101>> @@
    9 :> <<80, 108, 117, 116, 111>> @@
    10 :> <<83, 117, 110>> @@
    301 :> <<77, 111, 111, 110>> @@
    399 :> <<69, 97, 114, 116, 104>>

\* int(x) for the quotient x = n / d, d > 0: truncation toward zero
IntTrunc(n, d) == IF n >= 0 THEN n \div d ELSE -((-n) \div d)

\* num_intervals = int((end_jd - start_jd) / self.interval_days) + 1
FFINumIntervals(start_jd, end_jd, interval_days) ==
    IntTrunc(end_jd - start_jd, interval_days) + 1

\* entry i (0-based) of the interval index
FFIIndexEntry(i, start_jd, end_jd, interval_days) ==
    LET jd_start == start_jd + i * interval_days
        jd_end == Min(jd_start + interval_days, end_jd)
    IN <<jd_start, jd_end>>

\* f"Body_{body_id}".ljust(24, '\0')[:24].encode('ascii')
FFIBodyName(body_id) == EncodeName(<<66, 111, 100, 121, 95>> \o Str(body_id))

\* offset = 512 + len(body_ids) * 32 + num_intervals * 16, advanced by
\* num_intervals * 3 * (degree + 1) * 8 after every entry: value for entry k
FFIDataOffset(k, num_bodies, num_intervals, degree) ==
    HEADER_SIZE + num_bodies * SWISS_BODY_STRIDE
    + num_intervals * INTERVAL_ENTRY_SIZE
    + k * num_intervals * 3 * (degree + 1) * DOUBLE_SIZE

\* f.write(pack('<i', body_id)); f.write(name); f.write(pack('<Q', offset))
RECURSIVE FFIWriteBodyTable(_, _, _, _, _)
FFIWriteBodyTable(f, body_ids, k, num_intervals, degree) ==
    IF k >= Len(body_ids) THEN f
    ELSE LET offset == FFIDataOffset(k, Len(body_ids), num_intervals, degree)
             f1 == Write(f, 4, "int32", body_ids[k + 1])
             f2 == Write(f1, NAME_SIZE, "name", FFIBodyName(body_ids[k + 1]))
             f3 == Write(f2, 8, "uint64", offset)
         IN FFIWriteBodyTable(f3, body_ids, k + 1, num_intervals, degree)

\* for i in range(num_intervals): f.write(struct.pack('<dd', jd_start, jd_end))
RECURSIVE FFIWriteIndex(_, _, _, _, _, _)
FFIWriteIndex(f, i, num_intervals, start_jd, end_jd, interval_days) ==
    IF i >= num_intervals THEN f
    ELSE LET e == FFIIndexEntry(i, start_jd, end_jd, interval_days)
         IN FFIWriteIndex(Write(f, INTERVAL_ENTRY_SIZE, "interval",
                                StructPack(<< <<8, e[1]>>, <<8, e[2]>> >>)),
                          i + 1, num_intervals, start_jd, end_jd, interval_days)

\* fit_chebyshev(...).flatten(): x, y, z rows of degree + 1 coefficients; when
\* the SVD does not converge the fit of degree - 2 is padded with zeros
fit_chebyshev(body_id, i, degree, svd_fails) ==
    [m \in 1..(3 * (degree + 1)) |->
        LET comp == (m - 1) \div (degree + 1)
            k == (m - 1) % (degree + 1)
        IN IF svd_fails /\ k > degree - 2 THEN 0 ELSE Coef(body_id, i, comp, k)]

\* the coefficient loops; compute_position_ffi raises on the first sample of
\* a body in failing and the exception leaves the file as written so far
RECURSIVE FFIWriteCoefficients(_, _, _, _, _, _, _)
FFIWriteCoefficients(f, body_ids, n, i, num_intervals, failing, svd_fails) ==
    IF n > Len(body_ids) THEN [file |-> f, error |-> "none"]
    ELSE IF body_ids[n] \in failing
    THEN [file |-> f,
          error |-> IF body_ids[n] \in NAIF_TO_SWEPH THEN "RuntimeError"
                    ELSE "ValueError"]
    ELSE IF i >= num_intervals
    THEN FFIWriteCoefficients(f, body_ids, n + 1, 0, num_intervals, failing, svd_fails)
    ELSE LET coeffs == fit_chebyshev(body_ids[n], i, FFI_DEGREE, svd_fails)
         IN FFIWriteCoefficients(Write(f, DOUBLE_SIZE * Len(coeffs), "doubles", coeffs),
                                 body_ids, n, i + 1, num_intervals, failing, svd_fails)

NoSwiss == [writer |-> "none", file |-> NoFile, body_ids |-> <<>>, keys |-> <<>>,
            start_jd |-> 0, end_jd |-> 0, interval_days |-> 0,
            num_intervals |-> 0, degree |-> 0, error |-> "none",
            byteorder |-> "none"]

\* SwissEphFFIConverter.convert(start_jd, end_jd); php_fails is the set of
\* supported bodies for which the PHP script fails
SwissFFIConvert ==
    /\ swiss.writer = "none"
    /\ \E body_ids \in SwissBodyLists, start_jd \in MinJD..(MinJD + 1),
          interval_days \in 1..MaxIntervalDays, svd_fails \in BOOLEAN :
       \E end_jd \in start_jd..MaxJD,
          php_fails \in SUBSET (Range(body_ids) \cap NAIF_TO_SWEPH) :
          LET num_intervals == FFINumIntervals(start_jd, end_jd, interval_days)
              header == (0 :> MAGIC) @@ (4 :> FFI_VERSION) @@ (8 :> Len(body_ids))
                        @@ (12 :> num_intervals) @@ (16 :> interval_days)
                        @@ (24 :> start_jd) @@ (32 :> end_jd) @@ (40 :> FFI_DEGREE)
              f1 == Write(NoFile, HEADER_SIZE, "header", header)
              f2 == FFIWriteBodyTable(f1, body_ids, 0, num_intervals, FFI_DEGREE)
              f3 == FFIWriteIndex(f2, 0, num_intervals, start_jd, end_jd, interval_days)
              failing == php_fails \cup (Range(body_ids) \ NAIF_TO_SWEPH)
              out == FFIWriteCoefficients(f3, body_ids, 1, 0, num_intervals,
                                          failing, svd_fails)
          IN swiss' = [writer |-> "ffi", file |-> out.file, body_ids |-> body_ids,
                       keys |-> body_ids, start_jd |-> start_jd, end_jd |-> end_jd,
                       interval_days |-> interval_days,
                       num_intervals |-> num_intervals, degree |-> FFI_DEGREE,
                       error |-> out.error, byteorder |-> "little"]
    /\ UNCHANGED <<file, conv, reader, result, refit, orbit, cheb, callers, handles, daf, gen, clock>>

\* struct.pack without a byte-order character: native sizes and alignment.
\* fields is a sequence of <<size, value, alignment>>; every field starts at
\* the next multiple of its alignment, and no padding follows the last one.
RECURSIVE NativePackFrom(_, _, _)
NativePackFrom(fields, k, off) ==
    LET a == fields[k][3]
        at == ((off + a - 1) \div a) * a
    IN IF k = Len(fields)
       THEN [val |-> at :> fields[k][2], size |-> at + fields[k][1]]
       ELSE LET rest == NativePackFrom(fields, k + 1, at + fields[k][1])
            IN [val |-> (at :> fields[k][2]) @@ rest.val, size |-> rest.size]

NativePack(fields) == NativePackFrom(fields, 1, 0)

\* BODY_NAMES.get(body_id, f"Body{body_id}") of swisseph2eph.py
SwissBodyName(body_id) ==
    IF body_id \in DOMAIN SWISS_BODY_NAMES
    THEN SWISS_BODY_NAMES[body_id]
    ELSE <<66, 111, 100, 121>> \o Str(body_id)

\* SwissEph2Eph._extract_coefficients for a supported body whose samples all
\* compute: one {'x', 'y', 'z'} record of chebfit results per interval
SwissExtractCoefficients(body_id, intervals, degree) ==
    [j \in 1..Len(intervals) |->
        [x |-> chebfit(body_id, j - 1, 0, degree),
         y |-> chebfit(body_id, j - 1, 1, degree),
         z |-> chebfit(body_id, j - 1, 2, degree)]]

\* data_offset = 512 + num_bodies * 32 + num_intervals * 16, advanced by
\* num_intervals * bytes_per_interval after every entry: value for entry i
SwissDataOffset(i, num_bodies, num_intervals, degree) ==
    LET coeffs_per_interval == (degree + 1) * 3
        bytes_per_interval == coeffs_per_interval * DOUBLE_SIZE
    IN HEADER_SIZE + num_bodies * SWISS_BODY_STRIDE
       + num_intervals * INTERVAL_ENTRY_SIZE
       + i * num_intervals * bytes_per_interval

\* for body_id in sorted(all_coeffs.keys()): f.write(pack('i 24s Q', ...))
RECURSIVE SwissWriteBodyTable(_, _, _, _, _, _)
SwissWriteBodyTable(f, keys, i, num_intervals, degree, align8) ==
    IF i >= Len(keys) THEN f
    ELSE LET body_id == keys[i + 1]
             data_offset == SwissDataOffset(i, Len(keys), num_intervals, degree)
             body_entry == NativePack(<< <<4, body_id, 4>>,
                                         <<NAME_SIZE, EncodeName(SwissBodyName(body_id)), 1>>,
                                         <<8, data_offset, align8>> >>)
         IN SwissWriteBodyTable(Write(f, body_entry.size, "body", body_entry.val),
                                keys, i + 1, num_intervals, degree, align8)

\* for jd_start, jd_end in intervals: f.write(struct.pack('dd', ...))
RECURSIVE SwissWriteIndex(_, _, _, _)
SwissWriteIndex(f, intervals, j, align8) ==
    IF j > Len(intervals) THEN f
    ELSE LET interval_entry == NativePack(<< <<8, intervals[j][1], align8>>,
                                             <<8, intervals[j][2], align8>> >>)
         IN SwissWriteIndex(Write(f, interval_entry.size, "interval", interval_entry.val),
                            intervals, j + 1, align8)

\* SwissEph2Eph._write_eph_file (intervals non-empty)
SwissWriteEphFile(all_coeffs, intervals, interval_days, degree, align8) ==
    LET num_bodies == Cardinality(DOMAIN all_coeffs)
        num_intervals == Len(intervals)
        start_jd == intervals[1][1]
        end_jd == intervals[Len(intervals)][2]
        header == NativePack(<< <<4, MAGIC, 1>>, <<4, FFI_VERSION, 4>>,
                                <<4, num_bodies, 4>>, <<4, num_intervals, 4>>,
                                <<8, interval_days, align8>>, <<8, start_jd, align8>>,
                                <<8, end_jd, align8>>, <<4, degree, 4>>,
                                <<SWISS_HEADER_PAD, 0, 1>> >>)
        keys == SortedSeq(DOMAIN all_coeffs)
        f1 == Write(NoFile, header.size, "header", header.val)
        f2 == SwissWriteBodyTable(f1, keys, 0, num_intervals, degree, align8)
        f3 == SwissWriteIndex(f2, intervals, 1, align8)
    IN WriteCoefficientData(f3, all_coeffs, keys, 1)

\* sys.byteorder of the host: the order in which struct.pack lays out the
\* bytes of a number when the format has no byte-order character
ByteOrders == {"little", "big"}

\* SwissEph2Eph.convert(start_jd, end_jd, interval_days, degree); raising is
\* the set of supported bodies with a sample that swe.calc_ut cannot compute,
\* align8 the alignment the platform gives 8-byte fields and byteorder the
\* byte order of the host, which the formats of _write_eph_file take over
SwissEph2EphConvert ==
    /\ swiss.writer = "none"
    /\ \E body_ids \in SwissBodyLists, start_jd \in MinJD..(MinJD + 1),
          interval_days \in 1..MaxIntervalDays, degree \in SwissDegrees,
          align8 \in NativeAlignments, byteorder \in ByteOrders :
       \E end_jd \in start_jd..MaxJD,
          raising \in SUBSET (Range(body_ids) \cap NAIF_TO_SWEPH) :
          LET intervals == _generate_intervals(start_jd, end_jd, interval_days)
              extracted == (Range(body_ids) \cap NAIF_TO_SWEPH) \ raising
              all_coeffs == [b \in extracted |->
                                SwissExtractCoefficients(b, intervals, degree)]
              base == [writer |-> "swiss", file |-> NoFile, body_ids |-> body_ids,
                       keys |-> SortedSeq(extracted),
                       start_jd |-> start_jd, end_jd |-> end_jd,
                       interval_days |-> interval_days,
                       num_intervals |-> Len(intervals), degree |-> degree,
                       error |-> "none", byteorder |-> byteorder]
          IN IF extracted = {}
             THEN swiss' = [base EXCEPT !.error = "RuntimeError"]
             ELSE IF Len(intervals) = 0
             THEN swiss' = [base EXCEPT !.error = "IndexError"]
             ELSE swiss' = [base EXCEPT !.file =
                               SwissWriteEphFile(all_coeffs, intervals,
                                                 interval_days, degree, align8)]
    /\ UNCHANGED <<file, conv, reader, result, refit, orbit, cheb, callers, handles, daf, gen, clock>>

----------------------------------------------------------------------------
(* The refit of one body, SPICEConverter._extract_coefficients, with spkgps *)
(* calls that raise.  refit holds the arguments and the returned list.     *)

\* the sets of failing nodes tried per interval: none, the first, all
SampleFailureSets == {{}, {0}, 0..SPICE_DEGREE}

NoRefit == [done |-> FALSE, body_id |-> 0, intervals |-> <<>>, failed |-> <<>>,
            coeffs_list |-> <<>>]

\* coeffs = self._extract_coefficients(body_id, intervals) inside the loop of
\* SPICEConverter.convert
ExtractCoefficients ==
    /\ ~refit.done
    /\ \E body_id \in RequestIds, start_jd \in MinJD..(MinJD + 1),
          interval_days \in 1..MaxIntervalDays :
       \E end_jd \in start_jd..MaxJD :
          LET intervals == _generate_intervals(start_jd, end_jd, interval_days)
          IN \E failed \in [1..Len(intervals) -> SampleFailureSets] :
                refit' = [done |-> TRUE, body_id |-> body_id,
                          intervals |-> intervals, failed |-> failed,
                          coeffs_list |-> _extract_coefficients(body_id, intervals,
                                                                failed)]
    /\ UNCHANGED <<file, conv, reader, result, swiss, orbit, cheb, callers, handles, daf, gen, clock>>

----------------------------------------------------------------------------
(* Orbit integrator (src/tools/integrate_chiron_hybrid.py).  Times are      *)
(* integers counting ticks of 1/TicksPerDay day; the time of an RK4         *)
(* sub-stage is kept doubled (2 * jd_tdb) so that t + h/2 is an integer.    *)
(* Positions and velocities are not computed: the state is identified by    *)
(* the time it has been integrated to, an acceleration by its terms.        *)

TicksPerDay == 32         \* resolution of the time grid
MaxSpanDays == 2          \* longest end_jd - start_jd, in days
MaxExtraDays == 3         \* how far beyond the 100-day limit the epoch gap goes

PROP_FAR_DAYS == 100
PROP_STEP_NEAR_DAYS == 1
PROP_STEP_FAR_DAYS == 5
PROPAGATE_MIN == <<1, 10>>        \* 0.1 day
JD_EPS == <<1, 1000000>>          \* 1e-6 day

\* list(PLANET_GM.items()): the planets in the order of the dict
PLANET_GM == <<"Mercury", "Venus", "Earth", "Mars",
               "Jupiter", "Saturn", "Uranus", "Neptune">>

OrbitEpoch == 0

\* a tick beyond every time a run asks the provider about
Horizon == (PROP_FAR_DAYS + MaxExtraDays + MaxSpanDays + 2) * TicksPerDay
Everywhere == <<OrbitEpoch - Horizon, OrbitEpoch + Horizon>>

\* the provider handed to integrate_orbit: the names it cannot resolve and
\* the first and last tick its ephemeris file covers
Providers ==
    {[kind |-> "simplified", failing |-> {}, covers |-> Everywhere],
     [kind |-> "eph", failing |-> {}, covers |-> Everywhere],
     [kind |-> "eph", failing |-> {"Jupiter"}, covers |-> Everywhere],
     [kind |-> "eph", failing |-> {"sun", "Mercury", "Saturn"}, covers |-> Everywhere],
     [kind |-> "eph", failing |-> {"Mercury", "Venus", "Earth", "Mars", "Jupiter",
                                   "Saturn", "Uranus", "Neptune"},
      covers |-> Everywhere],
     [kind |-> "eph", failing |-> {}, covers |-> <<OrbitEpoch + 1, OrbitEpoch + Horizon>>],
     [kind |-> "eph", failing |-> {}, covers |-> <<OrbitEpoch - Horizon, OrbitEpoch>>]}

\* planet_provider.get_position(name, jd) raises, at 2 * jd = jd2: the name is
\* unknown to the provider or the JD is outside the file it reads
Raises(provider, name, jd2) ==
    \/ name \in provider.failing
    \/ jd2 < 2 * provider.covers[1]
    \/ jd2 > 2 * provider.covers[2]
GapTicks ==
    {0, 2, 4, TicksPerDay, (5 * TicksPerDay) \div 2,
     (PROP_FAR_DAYS - 1) * TicksPerDay, PROP_FAR_DAYS * TicksPerDay,
     (PROP_FAR_DAYS + MaxExtraDays) * TicksPerDay + 6}
StartJDs == {OrbitEpoch + g : g \in GapTicks} \cup {OrbitEpoch - g : g \in GapTicks}
SpanTicks == {-(TicksPerDay \div 2), 0} \cup
             {(d * TicksPerDay) + c : d \in 1..MaxSpanDays, c \in {0, TicksPerDay \div 2}}
StepTicks == {TicksPerDay \div 2, TicksPerDay}

\* x ticks > q days, for an integer x and q = <<num, den>>
ExceedsDays(x, q) == x > (q[1] * TicksPerDay) \div q[2]

\* the for loop of compute_acceleration without the try / except: the first
\* name the provider cannot resolve ends the evaluation with its exception
RECURSIVE perturbations_uncaught(_, _, _, _, _)
perturbations_uncaught(provider, jd2, n, calls, terms) ==
    IF n > Len(PLANET_GM) THEN [calls |-> calls, terms |-> terms, raised |-> FALSE]
    ELSE LET planet_name == PLANET_GM[n]
             called == Append(calls, <<planet_name, jd2>>)
         IN IF Raises(provider, planet_name, jd2)
            THEN [calls |-> called, terms |-> terms, raised |-> TRUE]
            ELSE perturbations_uncaught(provider, jd2, n + 1, called,
                                        terms \cup {planet_name})

\* for planet_name, gm_planet in PLANET_GM.items(): one get_position call per
\* planet; on an exception the planet is skipped, else a_pert is added
RECURSIVE perturbations(_, _, _, _, _)
perturbations(provider, jd2, n, calls, terms) ==
    IF n > Len(PLANET_GM) THEN [calls |-> calls, terms |-> terms, raised |-> FALSE]
    ELSE LET planet_name == PLANET_GM[n]
             called == Append(calls, <<planet_name, jd2>>)
         IN IF Raises(provider, planet_name, jd2)
            THEN perturbations(provider, jd2, n + 1, called, terms)
            ELSE perturbations(provider, jd2, n + 1, called,
                               terms \cup {planet_name})

\* compute_acceleration(pos, vel, jd_tdb, planet_provider) at 2 * jd_tdb = jd2:
\* a_sun + schwarzschild, then the planetary perturbations
compute_acceleration(jd2, provider) ==
    perturbations(provider, jd2, 1, <<>>, {"a_sun", "schwarzschild"})

\* the step with k3 evaluated at the end of the interval
rk4_step_k3_late(jd_tdb, dt, provider) ==
    LET k1 == compute_acceleration(2 * jd_tdb, provider)
        k2 == compute_acceleration(2 * jd_tdb + dt, provider)
        k3 == compute_acceleration(2 * jd_tdb + 2 * dt, provider)
        k4 == compute_acceleration(2 * jd_tdb + 2 * dt, provider)
    IN [jd_tdb |-> jd_tdb, dt |-> dt,
        calls |-> k1.calls \o k2.calls \o k3.calls \o k4.calls,
        terms |-> <<k1.terms, k2.terms, k3.terms, k4.terms>>,
        raised |-> k1.raised \/ k2.raised \/ k3.raised \/ k4.raised]

\* rk4_step(pos, vel, jd_tdb, dt, planet_provider): k1 at jd_tdb, k2 and k3 at
\* jd_tdb + 0.5 * dt, k4 at jd_tdb + dt; the new state is dt later
rk4_step(jd_tdb, dt, provider) ==
    LET k1 == compute_acceleration(2 * jd_tdb, provider)
        k2 == compute_acceleration(2 * jd_tdb + dt, provider)
        k3 == compute_acceleration(2 * jd_tdb + dt, provider)
        k4 == compute_acceleration(2 * jd_tdb + 2 * dt, provider)
    IN [jd_tdb |-> jd_tdb, dt |-> dt,
        calls |-> k1.calls \o k2.calls \o k3.calls \o k4.calls,
        terms |-> <<k1.terms, k2.terms, k3.terms, k4.terms>>,
        raised |-> k1.raised \/ k2.raised \/ k3.raised \/ k4.raised]

NoStep == [jd_tdb |-> 0, dt |-> 0, calls |-> <<>>, terms |-> <<>>, raised |-> FALSE]

NoOrbit == [pc |-> "idle",
            provider |-> [kind |-> "none", failing |-> {}, covers |-> <<0, 0>>],
            epoch_jd |-> 0, start_jd |-> 0, end_jd |-> 0, step_days |-> 0,
            sun_added |-> FALSE, current_jd |-> 0, state_jd |-> 0,
            prop_step |-> 0, direction |-> 0, n_steps |-> 0, i |-> 0,
            steps |-> 0, last |-> NoStep, results |-> <<>>]

\* n_steps = int((end_jd - start_jd) / step_days) + 1
NSteps(start_jd, end_jd, step_days) == IntTrunc(end_jd - start_jd, step_days) + 1

\* the state after pos, vel = rk4_step(pos, vel, current_jd, dt, provider)
\* followed by the update of current_jd to new_jd
Stepped(o, dt, new_jd) ==
    LET step == rk4_step(o.current_jd, dt, o.provider)
    IN IF step.raised
       THEN [o EXCEPT !.pc = "raised", !.last = step, !.steps = @ + 1]
       ELSE [o EXCEPT !.last = step, !.steps = @ + 1,
                      !.state_jd = @ + dt, !.current_jd = new_jd]

\* integrate_orbit(elements, start_jd, end_jd, step_days, planet_provider) up
\* to the first loop: the state at epoch, lifted by the Sun's position when
\* the provider is precise and resolves 'sun'
IntegrateOrbit ==
    /\ orbit.pc = "idle"
    /\ \E provider \in Providers, start_jd \in StartJDs, span \in SpanTicks,
          step_days \in StepTicks :
          LET epoch_jd == OrbitEpoch
              gap == Abs(start_jd - epoch_jd)
              propagate == ExceedsDays(gap, PROPAGATE_MIN)
              base == [NoOrbit EXCEPT
                         !.provider = provider, !.epoch_jd = epoch_jd,
                         !.start_jd = start_jd, !.end_jd = start_jd + span,
                         !.step_days = step_days,
                         !.sun_added = (provider.kind = "eph"
                                        /\ ~Raises(provider, "sun", 2 * epoch_jd)),
                         !.current_jd = epoch_jd, !.state_jd = epoch_jd]
          IN IF propagate
             THEN orbit' = [base EXCEPT
                              !.pc = "propagate",
                              !.prop_step = IF gap < PROP_FAR_DAYS * TicksPerDay
                                            THEN PROP_STEP_NEAR_DAYS * TicksPerDay
                                            ELSE PROP_STEP_FAR_DAYS * TicksPerDay,
                              !.direction = IF start_jd > epoch_jd THEN 1 ELSE -1]
             ELSE orbit' = [base EXCEPT
                              !.pc = "loop",
                              !.n_steps = NSteps(start_jd, start_jd + span, step_days)]
    /\ UNCHANGED <<file, conv, reader, result, swiss, refit, cheb, callers, handles, daf, gen, clock>>

\* while abs(current_jd - start_jd) > prop_step: one iteration
PropagateStep ==
    /\ orbit.pc = "propagate"
    /\ Abs(orbit.current_jd - orbit.start_jd) > orbit.prop_step
    /\ orbit' = Stepped(orbit, orbit.direction * orbit.prop_step,
                        orbit.current_jd + orbit.direction * orbit.prop_step)
    /\ UNCHANGED <<file, conv, reader, result, swiss, refit, cheb, callers, handles, daf, gen, clock>>

\* after the while loop: the final small step to start_jd, then n_steps
FinalStep ==
    /\ orbit.pc = "propagate"
    /\ ~(Abs(orbit.current_jd - orbit.start_jd) > orbit.prop_step)
    /\ LET o == IF ExceedsDays(Abs(orbit.current_jd - orbit.start_jd), JD_EPS)
                THEN Stepped(orbit, orbit.start_jd - orbit.current_jd, orbit.start_jd)
                ELSE orbit
       IN orbit' = IF o.pc = "raised" THEN o
                   ELSE [o EXCEPT !.pc = "loop",
                                  !.n_steps = NSteps(orbit.start_jd, orbit.end_jd,
                                                     orbit.step_days)]
    /\ UNCHANGED <<file, conv, reader, result, swiss, refit, cheb, callers, handles, daf, gen, clock>>

\* jd = start_jd + i * step_days; if jd > end_jd: jd = end_jd
TargetJD(o) ==
    LET jd == o.start_jd + o.i * o.step_days
    IN IF jd > o.end_jd THEN o.end_jd ELSE jd

\* while current_jd < jd - 1e-6: one iteration
AdvanceStep ==
    /\ orbit.pc = "loop"
    /\ orbit.i < orbit.n_steps
    /\ ExceedsDays(TargetJD(orbit) - orbit.current_jd, JD_EPS)
    /\ LET dt == Min(orbit.step_days, TargetJD(orbit) - orbit.current_jd)
       IN orbit' = Stepped(orbit, dt, orbit.current_jd + dt)
    /\ UNCHANGED <<file, conv, reader, result, swiss, refit, cheb, callers, handles, daf, gen, clock>>

\* the rest of the for body: lower to heliocentric if the provider is precise
\* and resolves 'sun', then results.append({'jd': jd, ...})
EmitSample ==
    /\ orbit.pc = "loop"
    /\ orbit.i < orbit.n_steps
    /\ ~ExceedsDays(TargetJD(orbit) - orbit.current_jd, JD_EPS)
    /\ orbit' = [orbit EXCEPT
                   !.results = Append(@, [jd |-> TargetJD(orbit),
                                          state_jd |-> orbit.state_jd,
                                          sun_subtracted |->
                                              (orbit.provider.kind = "eph"
                                               /\ ~Raises(orbit.provider, "sun",
                                                          2 * TargetJD(orbit)))]),
                   !.i = @ + 1]
    /\ UNCHANGED <<file, conv, reader, result, swiss, refit, cheb, callers, handles, daf, gen, clock>>

\* return results
ReturnResults ==
    /\ orbit.pc = "loop"
    /\ orbit.i >= orbit.n_steps
    /\ orbit' = [orbit EXCEPT !.pc = "done"]
    /\ UNCHANGED <<file, conv, reader, result, swiss, refit, cheb, callers, handles, daf, gen, clock>>

----------------------------------------------------------------------------
(* Chebyshev evaluation (src/tools/eph_reader.py), over integer            *)
(* coefficients and an integer argument, where the arithmetic is exact.    *)

MaxChebLen == 4           \* longest coefficient vector
MaxChebCoef == 1          \* coefficients range over -MaxChebCoef..MaxChebCoef
MaxChebX == 2             \* the argument ranges over -MaxChebX..MaxChebX

ChebVectors ==
    UNION {[1..n -> (-MaxChebCoef)..MaxChebCoef] : n \in 0..MaxChebLen}

\* for i in range(len(coeffs) - 1, 0, -1): bn = coeffs[i] + 2*t*bn1 - bn2;
\* bn2 = bn1; bn1 = bn.  coeffs[i] of the code is coeffs[i + 1] here; the
\* result is <<bn1, bn2>> after the loop
RECURSIVE clenshaw_loop(_, _, _, _, _)
clenshaw_loop(coeffs, t_normalized, i, bn1, bn2) ==
    IF i < 1 THEN <<bn1, bn2>>
    ELSE LET bn == coeffs[i + 1] + 2 * t_normalized * bn1 - bn2
         IN clenshaw_loop(coeffs, t_normalized, i - 1, bn, bn1)

\* the evaluation with the last step taken as one more turn of the recurrence
_chebyshev_eval_doubled(coeffs, t_normalized) ==
    IF Len(coeffs) = 0 THEN 0
    ELSE IF Len(coeffs) = 1 THEN coeffs[1]
    ELSE LET b == clenshaw_loop(coeffs, t_normalized, Len(coeffs) - 1, 0, 0)
         IN coeffs[1] + 2 * t_normalized * b[1] - b[2]

\* EphReader._chebyshev_eval(coeffs, t_normalized)
_chebyshev_eval(coeffs, t_normalized) ==
    IF Len(coeffs) = 0 THEN 0
    ELSE IF Len(coeffs) = 1 THEN coeffs[1]
    ELSE LET b == clenshaw_loop(coeffs, t_normalized, Len(coeffs) - 1, 0, 0)
         IN coeffs[1] + t_normalized * b[1] - b[2]

NoCheb == [done |-> FALSE, coeffs |-> <<>>, t_normalized |-> 0, value |-> 0]

\* one call of _chebyshev_eval, as compute makes for each component
ChebyshevEval ==
    /\ ~cheb.done
    /\ \E coeffs \in ChebVectors, t_normalized \in (-MaxChebX)..MaxChebX :
          cheb' = [done |-> TRUE, coeffs |-> coeffs, t_normalized |-> t_normalized,
                   value |-> _chebyshev_eval(coeffs, t_normalized)]
    /\ UNCHANGED <<file, conv, reader, result, swiss, refit, orbit, callers, handles, daf, gen, clock>>

----------------------------------------------------------------------------
(* Concurrent compute calls on one reader (src/tools/eph_reader.py).  Each  *)
(* call is a thread whose steps are the calls it makes that touch a file    *)
(* handle: open, seek, read; everything before the open is one step.        *)

NumCalls == 2             \* threads calling compute on the same reader
MaxSharedDays == 3        \* length of the coverage of the shared file

Threads == 1..NumCalls

NoCall == [pc |-> "idle", at |-> NoResult, result |-> NoResult]
NoCalls == [t \in Threads |-> NoCall]
ClosedHandle == [open |-> FALSE, pos |-> 0]
NoHandles == [h \in Threads |-> ClosedHandle]

\* one handle for all calls, as a reader that keeps its file open would have
HandleShared(t) == 1

\* with open(self.filepath, 'rb') as f: the handle of the call of thread t,
\* a new object for every call
Handle(t) == t

\* compute(body_id, jd) up to the open of _read_coefficients, for a body of the
\* file and a jd inside the coverage or one day past its end
CallCompute(t) ==
    /\ reader.status = "open"
    /\ callers[t].pc = "idle"
    /\ \E body_id \in RequestIds, jd \in MinJD..(MinJD + MaxSharedDays + 1) :
          LET at == locate(reader, body_id, jd)
          IN callers' = [callers EXCEPT ![t] =
                          IF at.kind = "ok"
                          THEN [pc |-> "open", at |-> at, result |-> NoResult]
                          ELSE [pc |-> "done", at |-> at, result |-> at]]
    /\ UNCHANGED <<file, conv, reader, result, swiss, refit, orbit, cheb, handles, daf, gen, clock>>

\* open(self.filepath, 'rb'): the handle starts at position 0
OpenHandle(t) ==
    /\ callers[t].pc = "open"
    /\ handles' = [handles EXCEPT ![Handle(t)] = [open |-> TRUE, pos |-> 0]]
    /\ callers' = [callers EXCEPT ![t].pc = "seek"]
    /\ UNCHANGED <<file, conv, reader, result, swiss, refit, orbit, cheb, daf, gen, clock>>

\* f.seek(offset)
SeekHandle(t) ==
    /\ callers[t].pc = "seek"
    /\ handles' = [handles EXCEPT ![Handle(t)].pos = callers[t].at.offset]
    /\ callers' = [callers EXCEPT ![t].pc = "read"]
    /\ UNCHANGED <<file, conv, reader, result, swiss, refit, orbit, cheb, daf, gen, clock>>

\* data = f.read(coeff_size) at the position of the handle, the end of the
\* with block, and the rest of compute
ReadHandle(t) ==
    /\ callers[t].pc = "read"
    /\ LET h == handles[Handle(t)]
           out == fetch(reader, file, callers[t].at, h.pos)
       IN /\ callers' = [callers EXCEPT ![t].pc = "done", ![t].result = out]
          /\ handles' = [handles EXCEPT ![Handle(t)] = ClosedHandle]
    /\ UNCHANGED <<file, conv, reader, result, swiss, refit, orbit, cheb, daf, gen, clock>>

----------------------------------------------------------------------------
(* read_daf_summary (src/tools/extract_native_intervals.py).  A DAF file is *)
(* its backward pointer and, for every record after the file record, the    *)
(* next pointer and the summary count stored in its first 24 bytes.         *)

MaxRecord == 3            \* number of 1024-byte records of the file
MaxVisits == 4            \* iterations of the while loop that are followed

RECORD_SIZE == 1024
SUMMARY_HEADER == 24
SPK_ND == 2               \* ND of an SPK file
SPK_NI == 6               \* NI of an SPK file

SummaryRecords == 2..MaxRecord
NextPointers == {0} \cup (2..(MaxRecord + 1))
SummaryCounts == {0, 1, (RECORD_SIZE \div ((SPK_ND + SPK_NI + 2) * 8)) + 1}

NoDaf == [pc |-> "idle", bward_ptr |-> 0, next_ptr |-> <<>>, n_summaries |-> <<>>,
          current_record |-> 0, visited |-> <<>>, slice_end |-> 0, error |-> "none"]

\* for i in range(n_summaries): if offset + summary_size > 1024: break; ...
\* offset += summary_size.  The end of the last slice taken from the record
RECURSIVE SummaryLoop(_, _, _, _)
SummaryLoop(i, n_summaries, offset, summary_size) ==
    IF i >= n_summaries \/ offset + summary_size > RECORD_SIZE
    THEN offset
    ELSE SummaryLoop(i + 1, n_summaries, offset + summary_size, summary_size)

\* read_daf_summary(file_path) up to the while loop: the file record gives
\* the backward pointer; the first summary record is record 2
ReadDafSummary ==
    /\ daf.pc = "idle"
    /\ \E bward_ptr \in 1..(MaxRecord + 1),
          next_ptr \in [SummaryRecords -> NextPointers],
          n_summaries \in [SummaryRecords -> SummaryCounts] :
          daf' = [NoDaf EXCEPT !.pc = "walk", !.bward_ptr = bward_ptr,
                               !.next_ptr = next_ptr, !.n_summaries = n_summaries,
                               !.current_record = 2]
    /\ UNCHANGED <<file, conv, reader, result, swiss, refit, orbit, cheb, callers, handles, gen, clock>>

\* while current_record <= bward_ptr: one iteration.  A record past the end
\* of the file reads as an empty string, which struct.unpack rejects
VisitRecord ==
    /\ daf.pc = "walk"
    /\ daf.current_record <= daf.bward_ptr
    /\ Len(daf.visited) < MaxVisits
    /\ LET r == daf.current_record
           seen == [daf EXCEPT !.visited = Append(@, r)]
       IN IF r \notin SummaryRecords
          THEN daf' = [seen EXCEPT !.pc = "raised", !.error = "struct.error"]
          ELSE IF daf.n_summaries[r] = 0
          THEN daf' = [seen EXCEPT !.pc = "done"]
          ELSE LET summary_size == (SPK_ND + SPK_NI + 2) * 8
                   last == SummaryLoop(0, daf.n_summaries[r], SUMMARY_HEADER,
                                       summary_size)
                   read == [seen EXCEPT !.slice_end =
                               IF last > @ THEN last ELSE @]
               IN IF daf.next_ptr[r] = 0
                  THEN daf' = [read EXCEPT !.pc = "done"]
                  ELSE daf' = [read EXCEPT !.current_record = daf.next_ptr[r]]
    /\ UNCHANGED <<file, conv, reader, result, swiss, refit, orbit, cheb, callers, handles, gen, clock>>

\* the while condition fails: return intervals_by_body
ReturnSummary ==
    /\ daf.pc = "walk"
    /\ daf.current_record > daf.bward_ptr
    /\ daf' = [daf EXCEPT !.pc = "done"]
    /\ UNCHANGED <<file, conv, reader, result, swiss, refit, orbit, cheb, callers, handles, gen, clock>>

----------------------------------------------------------------------------
(* _generate_intervals step by step (src/tools/spice2eph.py and its copies *)
(* in spice2hybrid.py, spice2sqlite.py, spice2msgpack.py, swisseph2eph.py), *)
(* for every interval_days that --interval (type=float) lets through.       *)

MaxGenIterations == (MaxJD - MinJD) + 3    \* iterations of the loop followed
IntervalOptions == (-1)..MaxIntervalDays   \* values of --interval

NoGen == [pc |-> "idle", start_jd |-> 0, end_jd |-> 0, interval_days |-> 0,
          current |-> 0, previous |-> 0, intervals |-> <<>>, iterations |-> 0]

\* intervals = []; current = start_jd
GenerateIntervals ==
    /\ gen.pc = "idle"
    /\ \E start_jd \in MinJD..MaxJD, end_jd \in MinJD..MaxJD,
          interval_days \in IntervalOptions :
          gen' = [NoGen EXCEPT !.pc = "loop", !.start_jd = start_jd,
                               !.end_jd = end_jd, !.interval_days = interval_days,
                               !.current = start_jd, !.previous = start_jd]
    /\ UNCHANGED <<file, conv, reader, result, swiss, refit, orbit, cheb, callers, handles, daf, clock>>

\* while current < end_jd: interval_end = min(current + interval_days, end_jd);
\* intervals.append((current, interval_end)); current = interval_end
GenerateStep ==
    /\ gen.pc = "loop"
    /\ gen.current < gen.end_jd
    /\ gen.iterations < MaxGenIterations
    /\ LET interval_end == Min(gen.current + gen.interval_days, gen.end_jd)
       IN gen' = [gen EXCEPT !.intervals = Append(@, <<gen.current, interval_end>>),
                             !.previous = gen.current,
                             !.current = interval_end,
                             !.iterations = @ + 1]
    /\ UNCHANGED <<file, conv, reader, result, swiss, refit, orbit, cheb, callers, handles, daf, clock>>

\* return intervals
GenerateReturn ==
    /\ gen.pc = "loop"
    /\ ~(gen.current < gen.end_jd)
    /\ gen' = [gen EXCEPT !.pc = "done"]
    /\ UNCHANGED <<file, conv, reader, result, swiss, refit, orbit, cheb, callers, handles, daf, clock>>

----------------------------------------------------------------------------
(* The output loop of integrate_orbit in double precision                   *)
(* (src/tools/integrate_chiron_hybrid.py).  Between JD 2097152 and JD       *)
(* 4194304 consecutive doubles are 2^-31 day apart; a JD is kept as the     *)
(* integer number of these spacings after J2000 (JD 2451545.0, whose        *)
(* significand is even), so that the parity of the number is the parity of  *)
(* the significand.  A difference of two JDs is exact; step_days, a small   *)
(* double, is a rational number <<num, den>> of spacings with den a power   *)
(* of two, for which i * step_days is exact.  The run starts at the epoch   *)
(* (no propagation) and the provider is left out: the loop conditions       *)
(* depend on the JDs alone.                                                 *)

MaxClockSpan == 4400      \* longest end_jd - start_jd, in spacings
MaxClockCalls == 3        \* iterations of the inner loop followed per output

\* 1e-6 day is 2147.48 spacings: jd - 1e-6 rounds to jd - 2147 spacings
JD_EPS_SPACINGS == 2147

ClockStarts == {0, 1}
ClockSpans == {0, MaxClockSpan \div 2, MaxClockSpan}
ClockSteps == {<<1, 4>>, <<1, 2>>, <<1024, 1>>}

\* the double nearest to num / den spacings, ties to the even significand
FlRound(num, den) ==
    LET lo == num \div den
        r == num - lo * den
    IN IF 2 * r < den THEN lo
       ELSE IF 2 * r > den THEN lo + 1
       ELSE IF lo % 2 = 0 THEN lo ELSE lo + 1

NoClock == [pc |-> "idle", start_jd |-> 0, end_jd |-> 0, step_days |-> <<0, 1>>,
            n_steps |-> 0, i |-> 0, current_jd |-> 0, previous_jd |-> 0,
            dt |-> <<0, 1>>, rk4_calls |-> 0, results |-> 0]

\* results = []; n_steps = int((end_jd - start_jd) / step_days) + 1, with
\* current_jd = epoch_jd = start_jd
ClockIntegrate ==
    /\ clock.pc = "idle"
    /\ \E start_jd \in ClockStarts, span \in ClockSpans, step_days \in ClockSteps :
          clock' = [NoClock EXCEPT
                      !.pc = "loop", !.start_jd = start_jd,
                      !.end_jd = start_jd + span, !.step_days = step_days,
                      !.n_steps = IntTrunc(span * step_days[2], step_days[1]) + 1,
                      !.current_jd = start_jd, !.previous_jd = start_jd]
    /\ UNCHANGED <<file, conv, reader, result, swiss, refit, orbit, cheb, callers, handles, daf, gen>>

\* jd = start_jd + i * step_days; if jd > end_jd: jd = end_jd
ClockTargetJD(c) ==
    LET jd == FlRound(c.start_jd * c.step_days[2] + c.i * c.step_days[1],
                      c.step_days[2])
    IN IF jd > c.end_jd THEN c.end_jd ELSE jd

\* while current_jd < jd - 1e-6: dt = min(step_days, jd - current_jd);
\* rk4_step; current_jd += dt
ClockAdvance ==
    /\ clock.pc = "loop"
    /\ clock.i < clock.n_steps
    /\ clock.current_jd < ClockTargetJD(clock) - JD_EPS_SPACINGS
    /\ clock.rk4_calls < MaxClockCalls
    /\ LET gap == ClockTargetJD(clock) - clock.current_jd
           step == clock.step_days
           dt == IF step[1] < gap * step[2] THEN step ELSE <<gap, 1>>
       IN clock' = [clock EXCEPT
                      !.dt = dt,
                      !.previous_jd = clock.current_jd,
                      !.current_jd = FlRound(clock.current_jd * dt[2] + dt[1], dt[2]),
                      !.rk4_calls = @ + 1]
    /\ UNCHANGED <<file, conv, reader, result, swiss, refit, orbit, cheb, callers, handles, daf, gen>>

\* the rest of the for body: results.append(...)
ClockEmit ==
    /\ clock.pc = "loop"
    /\ clock.i < clock.n_steps
    /\ ~(clock.current_jd < ClockTargetJD(clock) - JD_EPS_SPACINGS)
    /\ clock' = [clock EXCEPT !.results = @ + 1, !.i = @ + 1, !.rk4_calls = 0]
    /\ UNCHANGED <<file, conv, reader, result, swiss, refit, orbit, cheb, callers, handles, daf, gen>>

\* return results
ClockReturn ==
    /\ clock.pc = "loop"
    /\ clock.i >= clock.n_steps
    /\ clock' = [clock EXCEPT !.pc = "done"]
    /\ UNCHANGED <<file, conv, reader, result, swiss, refit, orbit, cheb, callers, handles, daf, gen>>

----------------------------------------------------------------------------
(* Specification *)

Init ==
    /\ file = NoFile
    /\ conv = NoConv
    /\ reader = NoReader
    /\ result = NoResult
    /\ swiss = NoSwiss
    /\ refit = NoRefit
    /\ orbit = NoOrbit
    /\ cheb = NoCheb
    /\ callers = NoCalls
    /\ handles = NoHandles
    /\ daf = NoDaf
    /\ gen = NoGen
    /\ clock = NoClock

Next ==
    \/ SPICEConvert
    \/ ChironConvert
    \/ CorruptMagic
    \/ TruncateFile
    \/ EphReaderInit
    \/ Compute

Spec == Init /\ [][Next]_vars

\* the Swiss Ephemeris converters, one conversion per behaviour
NextSwiss ==
    \/ SwissFFIConvert
    \/ SwissEph2EphConvert

SpecSwiss == Init /\ [][NextSwiss]_vars

\* the refit of one body
NextRefit == ExtractCoefficients

SpecRefit == Init /\ [][NextRefit]_vars

\* one run of integrate_orbit
NextOrbit ==
    \/ IntegrateOrbit
    \/ PropagateStep
    \/ FinalStep
    \/ AdvanceStep
    \/ EmitSample
    \/ ReturnResults

SpecOrbit == Init /\ [][NextOrbit]_vars

\* one evaluation of a Chebyshev series
NextCheb == ChebyshevEval

SpecCheb == Init /\ [][NextCheb]_vars

\* a reader opened on a file of two bodies that a conversion left, and
\* NumCalls threads that each call compute once
InitThreads ==
    /\ \E interval_days \in 1..2 :
          LET out == convert(<<10, 2060>>, MinJD, interval_days,
                             MinJD + MaxSharedDays, {})
          IN /\ conv = out.conv
             /\ file = out.file
             /\ reader = EphReader(out.file)
    /\ result = NoResult
    /\ swiss = NoSwiss
    /\ refit = NoRefit
    /\ orbit = NoOrbit
    /\ cheb = NoCheb
    /\ callers = NoCalls
    /\ handles = NoHandles
    /\ daf = NoDaf
    /\ gen = NoGen
    /\ clock = NoClock

NextThreads ==
    \E t \in Threads :
       \/ CallCompute(t)
       \/ OpenHandle(t)
       \/ SeekHandle(t)
       \/ ReadHandle(t)

SpecThreads == InitThreads /\ [][NextThreads]_vars

\* one walk over the summary records of a DAF file
NextDaf ==
    \/ ReadDafSummary
    \/ VisitRecord
    \/ ReturnSummary

SpecDaf == Init /\ [][NextDaf]_vars

\* one call of _generate_intervals
NextGen ==
    \/ GenerateIntervals
    \/ GenerateStep
    \/ GenerateReturn

SpecGen == Init /\ [][NextGen]_vars

\* the output loop of one run of integrate_orbit, in doubles
NextClock ==
    \/ ClockIntegrate
    \/ ClockAdvance
    \/ ClockEmit
    \/ ClockReturn

SpecClock == Init /\ [][NextClock]_vars

----------------------------------------------------------------------------
(* Properties *)

\* the container interval invariant: positive widths, adjacent intervals
\* contiguous (hence sorted), header range = first start .. last end
ContainerInvariants(header, intervals) ==
    /\ Len(intervals) >= 1
    /\ \A j \in 1..Len(intervals) : intervals[j][1] < intervals[j][2]
    /\ \A j \in 1..(Len(intervals) - 1) : intervals[j][2] = intervals[j + 1][1]
    /\ header.start_jd = intervals[1][1]
    /\ header.end_jd = intervals[Len(intervals)][2]

\* a compute call has run on an open reader whose index is well formed
Computed ==
    /\ reader.status = "open"
    /\ result.kind # "none"
    /\ ContainerInvariants(reader.header, reader.intervals)

\* the (jd_start, jd_end) pairs of the interval index as written to the file
WrittenIndex(f) ==
    LET idx == SelectSeq(f, LAMBDA c : c.kind = "interval")
    IN [j \in 1..Len(idx) |-> <<idx[j].val[0], idx[j].val[8]>>]

\* C1: a query at an interior boundary (intervals[j].jd_end =
\* intervals[j+1].jd_start = jd) selects the earlier interval j, at x = +1.
C1_BoundaryGoesToEarlier ==
    Computed =>
        \A j \in 1..(Len(reader.intervals) - 1) :
            (result.jd = reader.intervals[j][2]
             /\ result.jd = reader.intervals[j + 1][1])
            => /\ result.interval_idx = j - 1
               /\ result.t_normalized = <<1, 1>>

\* C2: for a container written by SPICEConverter, _read_coefficients reads
\* exactly 3*(degree+1) doubles at data_offset + i*3*(degree+1)*8, which are
\* the x, y, z coefficients the writer emitted for that body and interval.
C2_ReadsWrittenBlock ==
    (reader.status = "open" /\ conv.writer = "spice"
     /\ result.kind \in {"ok", "ReshapeError"})
    => LET degree == reader.header.coeff_degree
           block_size == 3 * (degree + 1) * DOUBLE_SIZE
           written == conv.all_coeffs[result.body_id][result.interval_idx + 1]
       IN /\ result.kind = "ok"
          /\ result.count = 3 * (degree + 1)
          /\ result.offset = reader.bodies[result.body_id].data_offset
                             + result.interval_idx * block_size
          /\ result.coeffs = <<written.x, written.y, written.z>>

\* C3: on a well-formed index, compute on a known body fails with the
\* out-of-range error iff jd < start_jd or jd > end_jd; otherwise the search
\* returns an index i with intervals[i].jd_start <= jd <= intervals[i].jd_end.
C3_OutOfRangeIffOutside ==
    (Computed /\ result.body_id \in DOMAIN reader.bodies)
    => LET outside == \/ result.jd < reader.header.start_jd
                      \/ result.jd > reader.header.end_jd
       IN /\ (result.kind = "OutOfRange") <=> outside
          /\ ~outside =>
               /\ result.interval_idx \in 0..(Len(reader.intervals) - 1)
               /\ reader.intervals[result.interval_idx + 1][1] <= result.jd
               /\ result.jd <= reader.intervals[result.interval_idx + 1][2]

C3_Witness ==
    /\ Computed
    /\ result.body_id \in DOMAIN reader.bodies
    /\ Len(reader.intervals) >= 3
    /\ result.kind = "OutOfRange"
    /\ result.jd = reader.header.end_jd + 1

\* C4: on a well-formed index with n intervals, compute at exactly start_jd
\* selects interval 0 at x = -1 and at exactly end_jd interval n-1 at x = +1.
C4_EndpointsOfCoverage ==
    Computed =>
        /\ result.jd = reader.header.start_jd
           => (result.interval_idx = 0 /\ result.t_normalized = <<-1, 1>>)
        /\ result.jd = reader.header.end_jd
           => (result.interval_idx = Len(reader.intervals) - 1
               /\ result.t_normalized = <<1, 1>>)

C4_Witness ==
    /\ Computed
    /\ result.kind = "ok"
    /\ Len(reader.intervals) >= 3
    /\ result.jd = reader.header.end_jd
    /\ result.interval_idx = Len(reader.intervals) - 1

FirstBlockPos(f, body_id) ==
    LET k == CHOOSE k \in 1..Len(f) :
                 /\ f[k].kind = "doubles"
                 /\ f[k].val = conv.all_coeffs[body_id][1].x
    IN f[k].pos

SpiceWritten == conv.writer = "spice" /\ conv.error = "none" /\ file # NoFile

C7_DecodeYieldsEncoded ==
    (reader.status = "open" /\ conv.writer = "spice")
    => LET keys == SortedSeq(DOMAIN conv.all_coeffs)
       IN /\ DOMAIN reader.bodies = DOMAIN conv.all_coeffs
          /\ \A k \in 1..Len(keys) :
                /\ reader.bodies[keys[k]].name = BodyName(keys[k])
                /\ reader.bodies[keys[k]].data_offset
                     = FirstBlockPos(file, keys[k])
          /\ reader.header.num_bodies = Cardinality(DOMAIN conv.all_coeffs)
          /\ reader.header.num_intervals = Len(conv.intervals)
          /\ reader.header.coeff_degree = conv.degree
          /\ reader.header.start_jd = conv.start_jd
          /\ reader.header.end_jd = conv.end_jd
          /\ reader.intervals = conv.intervals

C7_Witness ==
    /\ reader.status = "open"
    /\ conv.writer = "spice"
    /\ Cardinality(DOMAIN reader.bodies) = 2
    /\ 2060 \in DOMAIN reader.bodies
    /\ Len(reader.intervals) >= 2

\* C8: constructing a reader fails when the first four bytes are not
\* "EPH\0" or the version is not the supported version 1, and a failed
\* construction has loaded no bodies and no intervals.
C8_RejectsMagicAndVersion ==
    /\ reader.status = "open"
       => (HeaderMagic(file) = MAGIC /\ file[1].val[4] = SPICE_VERSION)
    /\ reader.status = "error"
       => (reader.bodies = <<>> /\ reader.intervals = <<>>)

\* C9: compute with a body id absent from the body table fails with the
\* unknown-body error for every jd, inside or outside the coverage.
C9_UnknownBodyFirst ==
    (reader.status = "open" /\ result.kind # "none"
     /\ result.body_id \notin DOMAIN reader.bodies)
    => result.kind = "UnknownBody"

\* C10: the interval index written by ChironEphConverter has jd_end >
\* jd_start in every interval and jd_end = next jd_start between neighbours.
C10_ChironIndexTiles ==
    (conv.writer = "chiron" /\ file # NoFile)
    => LET iv == WrittenIndex(file)
       IN /\ \A j \in 1..Len(iv) : iv[j][2] > iv[j][1]
          /\ \A j \in 1..(Len(iv) - 1) : iv[j][2] = iv[j + 1][1]

----------------------------------------------------------------------------
(* Swiss Ephemeris converters: written index and body table *)

\* C11: for start_jd < end_jd and interval_days > 0, every one of the
\* int((end_jd - start_jd) / interval_days) + 1 index entries that
\* SwissEphFFIConverter.convert writes has jd_start < jd_end, each entry ends
\* no later than the next one starts, and the last entry ends at end_jd --
\* also when the span is an exact multiple of interval_days.
C11_FFIIndexTiles ==
    (swiss.writer = "ffi" /\ swiss.start_jd < swiss.end_jd /\ swiss.interval_days > 0) =>
        LET index == WrittenIndex(swiss.file)
            n == ((swiss.end_jd - swiss.start_jd) \div swiss.interval_days) + 1
        IN /\ Len(index) = n
           /\ \A j \in 1..n : index[j][1] < index[j][2]
           /\ \A j \in 1..(n - 1) : index[j][2] <= index[j + 1][1]
           /\ index[n][2] = swiss.end_jd

\* the data_offset fields of the body table, in entry order
RecordedOffsets(f) ==
    LET entries == SelectSeq(f, LAMBDA c : c.kind \in {"uint64", "body"})
    IN [k \in 1..Len(entries) |->
           IF entries[k].kind = "uint64" THEN entries[k].val
           ELSE LET q == CHOOSE o \in DOMAIN entries[k].val :
                             \A o2 \in DOMAIN entries[k].val : o2 <= o
                IN entries[k].val[q]]

\* byte position of the first coefficient block of the k-th (0-based) body:
\* the bodies' runs follow one another, num_intervals blocks each
SwissBlockPos(f, k, num_intervals) ==
    LET blocks == SelectSeq(f, LAMBDA c : c.kind = "doubles")
        per_body == Len(blocks) \div Len(RecordedOffsets(f))
    IN blocks[k * per_body + 1].pos

SwissWritten == swiss.writer # "none" /\ swiss.error = "none" /\ swiss.file # NoFile

\* C12: in a file written by SwissEphFFIConverter.convert or by
\* SwissEph2Eph._write_eph_file the data_offset of the k-th body entry is the
\* byte position of that body's first coefficient block.
C12_SwissDataOffsetIsBlockPosition ==
    SwissWritten =>
        \A k \in 0..(Len(swiss.keys) - 1) :
            RecordedOffsets(swiss.file)[k + 1]
                = SwissBlockPos(swiss.file, k, swiss.num_intervals)

\* a requested body list that names some id more than once
HasDuplicates(body_ids) ==
    \E m, n \in 1..Len(body_ids) : m # n /\ body_ids[m] = body_ids[n]

\* C15: a body list with a repeated id is rejected by SPICEConverter.convert
\* and by SwissEphFFIConverter.convert: the conversion ends with an error and
\* completes no container (neither with the duplicate merged nor written twice).
C15_DuplicateBodiesRejected ==
    /\ (swiss.writer = "ffi" /\ HasDuplicates(swiss.body_ids)) =>
          (swiss.error # "none" /\ ~SwissWritten)
    /\ (conv.writer = "spice" /\ HasDuplicates(conv.body_ids)) =>
          (conv.error # "none" /\ ~SpiceWritten)

----------------------------------------------------------------------------
(* EphReader: validation at open time *)

\* C13: EphReader opens only files whose size is the one their header
\* declares, 512 + 36*num_bodies + 16*num_intervals
\* + 24*(degree+1)*num_intervals*num_bodies, with at least one interval; a
\* truncated coefficient matrix or num_intervals = 0 fails in the constructor.
C13_OpenChecksFileSize ==
    reader.status = "open" =>
        /\ reader.header.num_intervals # 0
        /\ FileSize(file) = 512 + 36 * reader.header.num_bodies
                            + 16 * reader.header.num_intervals
                            + 24 * (reader.header.coeff_degree + 1)
                              * reader.header.num_intervals * reader.header.num_bodies

----------------------------------------------------------------------------
(* Refit: failing samples *)

ZeroVector(v) == \A k \in 1..Len(v) : v[k] = 0

\* C14: when a sample call of a (body, interval) fails in
\* _extract_coefficients, the x, y and z coefficient vectors of that interval
\* are zero vectors, and the refit goes on: the returned list still has one
\* record per interval, the intervals without failures fitted as usual.
C14_FailedSampleZeroesInterval ==
    refit.done =>
        /\ Len(refit.coeffs_list) = Len(refit.intervals)
        /\ \A j \in 1..Len(refit.intervals) :
              IF refit.failed[j] # {}
              THEN /\ ZeroVector(refit.coeffs_list[j].x)
                   /\ ZeroVector(refit.coeffs_list[j].y)
                   /\ ZeroVector(refit.coeffs_list[j].z)
              ELSE refit.coeffs_list[j] = extract_interval(refit.body_id, j - 1, {})

----------------------------------------------------------------------------
(* Chiron bridge: validation of the fit *)

ChironWritten == conv.writer = "chiron" /\ conv.error = "none" /\ file # NoFile

\* C16: when the maximum residual of the fit exceeds the threshold,
\* ChironEphConverter.convert fits again with the interval halved (at most
\* two halvings), and it writes a container only from a fit whose residual
\* was found within the threshold.
C16_ResidualValidatedBeforeWrite ==
    /\ (conv.writer = "chiron" /\ conv.max_exceeds) => conv.fits > 1
    /\ ChironWritten => ~conv.max_exceeds
    /\ conv.writer = "chiron" => conv.fits <= 3

----------------------------------------------------------------------------
(* Orbit integrator *)

\* the sub-stage times of a step, as multiples of dt/2 after jd_tdb
StageHalves == <<0, 1, 1, 2>>

\* C17: every rk4_step evaluates compute_acceleration four times, at t,
\* t + h/2, t + h/2 and t + h in that order, and every evaluation calls the
\* provider once for each of the eight planets at that time: 32 calls a step.
C17_Rk4StepQueriesProvider ==
    orbit.steps > 0 =>
        LET step == orbit.last
        IN /\ Cardinality(Range(PLANET_GM)) = 8
           /\ Len(step.calls) = 32
           /\ \A m \in 1..4 : \A n \in 1..8 :
                 step.calls[8 * (m - 1) + n]
                    = <<PLANET_GM[n], 2 * step.jd_tdb + StageHalves[m] * step.dt>>

C17_Witness ==
    /\ orbit.steps > 1
    /\ orbit.last.dt < 0
    /\ orbit.last.dt # -orbit.prop_step
    /\ orbit.provider.failing # {}

\* C18: whenever the epoch differs from start_jd, integrate_orbit propagates
\* toward start_jd in steps of 1 day if |start_jd - epoch_jd| < 100 days and of
\* 5 days otherwise, and the state has been integrated exactly to start_jd
\* when the first sample is emitted.
C18_PropagationLandsOnStart ==
    (orbit.pc # "idle" /\ orbit.epoch_jd # orbit.start_jd) =>
        LET gap == Abs(orbit.start_jd - orbit.epoch_jd)
            h == IF gap < 100 * TicksPerDay THEN TicksPerDay ELSE 5 * TicksPerDay
            toward == IF orbit.start_jd > orbit.epoch_jd THEN 1 ELSE -1
        IN /\ (orbit.pc = "propagate" /\ orbit.steps > 0) => orbit.last.dt = toward * h
           /\ (Len(orbit.results) = 0 /\ orbit.steps > 0) =>
                  /\ orbit.last.dt * toward > 0
                  /\ Abs(orbit.last.dt) <= h
           /\ Len(orbit.results) >= 1 =>
                  /\ orbit.results[1].jd = orbit.start_jd
                  /\ orbit.results[1].state_jd = orbit.start_jd

\* C19: for start_jd <= end_jd and step_days > 0 integrate_orbit returns
\* floor((end_jd - start_jd) / step_days) + 1 samples, the k-th (from 0) at
\* start_jd + k * step_days, in increasing order, none after end_jd, each
\* emitted with the state integrated to the JD of the sample.
C19_SamplesOnTheGrid ==
    (orbit.pc = "done" /\ orbit.start_jd <= orbit.end_jd /\ orbit.step_days > 0) =>
        LET n == ((orbit.end_jd - orbit.start_jd) \div orbit.step_days) + 1
        IN /\ Len(orbit.results) = n
           /\ \A k \in 1..n :
                 /\ orbit.results[k].jd = orbit.start_jd + (k - 1) * orbit.step_days
                 /\ orbit.results[k].jd <= orbit.end_jd
                 /\ orbit.results[k].state_jd = orbit.results[k].jd
           /\ \A k \in 1..(n - 1) : orbit.results[k].jd < orbit.results[k + 1].jd

\* C20: a provider that raises for a planet costs only that planet's term:
\* every evaluation of a step still sums the solar term, the relativistic
\* term and the perturbations of the other planets, no step ends with the
\* exception, and the run goes on to return all its samples.
C20_FailedPlanetIsSkipped ==
    /\ orbit.pc # "raised"
    /\ orbit.steps > 0 =>
          /\ ~orbit.last.raised
          /\ \A m \in 1..4 :
                orbit.last.terms[m] = {"a_sun", "schwarzschild"}
                    \cup {p \in Range(PLANET_GM) :
                             ~Raises(orbit.provider, p,
                                     2 * orbit.last.jd_tdb
                                        + StageHalves[m] * orbit.last.dt)}
    /\ orbit.pc = "done" => Len(orbit.results) = orbit.n_steps

C20_Witness ==
    /\ orbit.pc = "done"
    /\ "Jupiter" \in orbit.provider.failing
    /\ orbit.steps > 1
    /\ Len(orbit.results) > 1

\* every planet query of the run fails: the provider resolves no planet
EveryQueryFails(provider) == Range(PLANET_GM) \subseteq provider.failing

\* C21: a run in which the provider fails persistently (every planet query
\* of every step raises) is aborted with an error: it never takes steps up to
\* end_jd and returns samples.
C21_PersistentFailureAborts ==
    (EveryQueryFails(orbit.provider) /\ orbit.steps > 0) =>
        ~(orbit.pc = "done" /\ Len(orbit.results) > 0)

\* C26: with a precise provider the Sun's offset is subtracted from an
\* emitted sample if and only if it was added to the initial state at epoch:
\* no sample carries the offset applied only once.
C26_SunOffsetBalanced ==
    orbit.provider.kind = "eph" =>
        \A k \in 1..Len(orbit.results) :
           orbit.results[k].sun_subtracted = orbit.sun_added

----------------------------------------------------------------------------
(* Chebyshev evaluation *)

\* T_0 = 1, T_1 = x, T_{k+1} = 2*x*T_k - T_{k-1}
RECURSIVE ChebT(_, _)
ChebT(k, x) ==
    IF k = 0 THEN 1
    ELSE IF k = 1 THEN x
    ELSE 2 * x * ChebT(k - 1, x) - ChebT(k - 2, x)

\* sum over k = 0..n of c[k] * T_k(x), for the first n + 1 coefficients
RECURSIVE BasisSum(_, _, _)
BasisSum(c, x, n) ==
    IF n < 0 THEN 0 ELSE BasisSum(c, x, n - 1) + c[n + 1] * ChebT(n, x)

\* C22: for every coefficient vector c_0..c_n and every x, _chebyshev_eval
\* returns the value of the basis expansion sum of c_k * T_k(x), exactly
\* over the integers; for the empty vector it returns 0.
C22_ClenshawEqualsBasisSum ==
    cheb.done =>
        /\ cheb.value = BasisSum(cheb.coeffs, cheb.t_normalized, Len(cheb.coeffs) - 1)
        /\ Len(cheb.coeffs) = 0 => cheb.value = 0

C22_Witness ==
    /\ cheb.done
    /\ Len(cheb.coeffs) = MaxChebLen
    /\ cheb.coeffs[MaxChebLen] # 0
    /\ cheb.t_normalized > 1
    /\ cheb.value # 0

----------------------------------------------------------------------------
(* EphReader.compute: frame *)

\* C28: compute never modifies the reader's header, body table or interval
\* index, whether it returns a position or raises: after any calls the reader
\* is still what a fresh open of the file builds, and the last call returned
\* what the same call returns on a freshly opened reader.
C28_ComputeLeavesReaderFresh ==
    result.kind # "none" =>
        /\ reader = EphReader(file)
        /\ result = compute(EphReader(file), file, result.body_id, result.jd).result

C28_Witness ==
    /\ result.kind \in {"OutOfRange", "UnknownBody"}
    /\ Len(reader.intervals) > 1
    /\ Cardinality(DOMAIN reader.bodies) > 1

----------------------------------------------------------------------------
(* SPICEConverter.convert: skipped bodies *)

\* the values of the coefficient writes of f, in file order
DoublesWritten(f) ==
    LET ks == SortedSeq({k \in 1..Len(f) : f[k].kind = "doubles"})
    IN [n \in 1..Len(ks) |-> f[ks[n]].val]

\* the x, y, z rows of num_intervals blocks of each body of keys, in order
RECURSIVE ExpectedRuns(_, _, _, _)
ExpectedRuns(all_coeffs, keys, i, num_intervals) ==
    IF i > Len(keys) THEN <<>>
    ELSE LET run == all_coeffs[keys[i]]
             rows == [n \in 1..(3 * num_intervals) |->
                         LET block == run[((n - 1) \div 3) + 1]
                         IN IF (n - 1) % 3 = 0 THEN block.x
                            ELSE IF (n - 1) % 3 = 1 THEN block.y
                            ELSE block.z]
         IN rows \o ExpectedRuns(all_coeffs, keys, i + 1, num_intervals)

\* what convert leaves for the bodies it extracted: nothing when there are
\* none, else a header, a body table and coefficient runs that agree
SelfConsistent(f, c) ==
    LET extracted == {b \in Range(c.body_ids) :
                         b \in DOMAIN c.all_coeffs /\ Len(c.all_coeffs[b]) > 0}
        n == Cardinality(extracted)
    IN /\ n = 0 => f = NoFile
       /\ f # NoFile =>
             LET num_intervals == f[1].val[12]
             IN /\ f[1].val[8] = n
                /\ Cardinality({k \in 1..Len(f) : f[k].kind = "body"}) = n
                /\ {f[k].val[0] : k \in {k \in 1..Len(f) : f[k].kind = "body"}}
                      = extracted
                /\ num_intervals = Len(c.intervals)
                /\ \A b \in extracted : Len(c.all_coeffs[b]) = num_intervals
                /\ DoublesWritten(f)
                      = ExpectedRuns(c.all_coeffs, SortedSeq(extracted), 1,
                                     num_intervals)

\* C27: whichever requested bodies raise and are skipped, the container
\* convert writes is self-consistent: num_bodies of the header, the number of
\* body-table entries and the number of coefficient runs all equal the number
\* of bodies extracted, every written body has exactly num_intervals blocks,
\* and no file is written when no body was extracted.
C27_SkippedBodiesLeaveConsistentFile ==
    [][(conv.writer = "none" /\ conv'.writer = "spice") =>
          SelfConsistent(file', conv')]_vars

C27_Witness ==
    /\ SpiceWritten
    /\ DOMAIN conv.all_coeffs # Range(conv.body_ids)
    /\ Len(conv.intervals) > 1
    /\ SelfConsistent(file, conv)

----------------------------------------------------------------------------
(* Concurrent compute calls *)

\* C23: under any interleaving of concurrent compute calls on the same
\* reader every call returns what it returns when run alone: each call does
\* read at the position it sought itself, whatever the other calls did in
\* between, and the reader is not changed by any call.
C23_ConcurrentCallsAgreeWithSequential ==
    /\ \A t \in Threads :
          callers[t].pc = "done" =>
             callers[t].result = compute(EphReader(file), file,
                                       callers[t].at.body_id, callers[t].at.jd).result
    /\ \A t \in Threads :
          callers[t].pc = "read" => handles[Handle(t)].pos = callers[t].at.offset
    /\ reader = EphReader(file)

C23_Witness ==
    /\ callers[1].pc = "done"
    /\ callers[1].result.kind = "ok"
    /\ callers[2].pc = "read"
    /\ callers[2].at.offset # callers[1].result.offset
    /\ callers[2].at.offset # 0

----------------------------------------------------------------------------
(* Byte order and padding of the written files *)

\* C24: a writer produces the same bytes on a little-endian and on a
\* big-endian host: every number is packed little-endian and the header, the
\* body-table entries and the index entries have their fixed sizes, with no
\* padding that depends on the host.
C24_SameBytesOnEveryHost ==
    (swiss.writer # "none" /\ swiss.file # NoFile) =>
        /\ swiss.byteorder = "little"
        /\ \A k \in 1..Len(swiss.file) :
              LET c == swiss.file[k]
              IN /\ c.kind = "header" => c.pos + c.size <= HEADER_SIZE
                 /\ c.kind = "body" => c.size <= BODY_ENTRY_SIZE
                 /\ c.kind = "interval" => c.size = INTERVAL_ENTRY_SIZE

----------------------------------------------------------------------------
(* read_daf_summary *)

\* C25: the walk over the summary records follows the next pointers and
\* terminates on every file, also when the pointers form a cycle: no summary
\* record is visited more than once, and no slice is taken beyond the 1024
\* bytes of a record.
C25_SummaryWalkVisitsOnce ==
    /\ \A i \in 1..Len(daf.visited), j \in 1..Len(daf.visited) :
          i # j => daf.visited[i] # daf.visited[j]
    /\ daf.slice_end <= RECORD_SIZE

----------------------------------------------------------------------------
(* _generate_intervals: termination *)

\* C30: _generate_intervals terminates for every start_jd, end_jd and every
\* interval_days the --interval option accepts, zero and negative values
\* included: every iteration moves current toward end_jd, so that no more
\* than end_jd - start_jd iterations (on whole days) are made, and the list
\* is empty when start_jd >= end_jd.
C30_GenerateIntervalsTerminates ==
    /\ gen.iterations > 0 => gen.current > gen.previous
    /\ gen.iterations > 0 => gen.iterations <= gen.end_jd - gen.start_jd
    /\ (gen.pc = "done" /\ gen.start_jd >= gen.end_jd) => gen.intervals = <<>>

----------------------------------------------------------------------------
(* integrate_orbit: termination *)

\* C29: integrate_orbit terminates for every start_jd <= end_jd and every
\* step_days > 0: each iteration of the loop that advances to an output JD
\* calls rk4_step with 0 < dt <= step_days and moves current_jd forward by
\* it, so that the output JD is reached after finitely many calls.
C29_EveryStepAdvances ==
    clock.rk4_calls > 0 =>
        /\ clock.dt[1] > 0
        /\ clock.dt[1] * clock.step_days[2] <= clock.step_days[1] * clock.dt[2]
        /\ clock.current_jd > clock.previous_jd

====
